---- MODULE Spec2Model ----
(***************************************************************************)
(* Model of the audio-lab orchestration core: the staged Pipeline, the     *)
(* bounded WorkerPool (batch mode), retry.Do and AudioService.ProcessAudio *)
(* (single-job mode).                                                      *)
(*                                                                         *)
(* Conventions.  A Go pointer or error value is a sequence: << >> is nil,  *)
(* a pointer to v is <<v>>, and an error is its Unwrap chain, outermost    *)
(* layer first.  Collaborator calls (storage.Exists, executor.Probe,       *)
(* executor.Execute) take their outcome from an environment record that    *)
(* the calling action chooses nondeterministically.                        *)
(***************************************************************************)
EXTENDS Integers, Sequences, FiniteSets, TLC

\* ------------------------------------------------------------------ bounds
MaxJobs == 2
MaxWorkers == 2
MaxRetriesBound == 3
MaxWrites == 2
MaxRepCap == 2

\* --------------------------------------------------------- program constants
DefaultBitrate == 128000
DefaultSampleRate == 48000
DefaultMaxRetries == 3
DefaultRetryDelay == 1
RetryMultiplier == 2
RetryMaxDelay == 30

\* ------------------------------------------------------------ error taxonomy
NoErr == << >>

\* context.Canceled / context.DeadlineExceeded, as returned by ctx.Err()
ErrCanceled == << [t |-> "canceled"] >>
ErrDeadline == << [t |-> "deadline"] >>

\* an opaque error produced by a collaborator (os error, exec error, ...)
RawErr == << [t |-> "raw"] >>

NewValidationError(field) == << [t |-> "validation", field |-> field] >>

NewProcessingError(stage, cause) == << [t |-> "processing", stage |-> stage] >> \o cause

NewFFmpegError(cause) == << [t |-> "ffmpeg"] >> \o cause

\* fmt.Errorf("...: %w", err)
FmtWrap(err) == << [t |-> "fmt"] >> \o err

\* errors.As(err, &target) for a target of the given concrete type
ErrorsAs(err, type) == \E i \in 1..Len(err) : err[i].t = type

isValidationError(err) == ErrorsAs(err, "validation")

\* Classification of an error from any layer: the first typed layer of the chain.
RECURSIVE KindOf(_)
KindOf(err) ==
    IF err = << >> THEN "none"
    ELSE IF err[1].t \in {"validation", "processing", "ffmpeg", "canceled", "deadline"}
         THEN err[1].t
         ELSE IF Len(err) = 1 THEN "unknown" ELSE KindOf(Tail(err))

\* ---------------------------------------------------------------- data model
CodecOpus == "opus"
CodecAAC == "aac"
CodecMP3 == "mp3"

BitrateModeVBR == "vbr"
BitrateCBR == "cbr"

DefaultProcessingOptions ==
    [ Codec      |-> CodecOpus,
      Bitrate    |-> DefaultBitrate,
      BitrateMode |-> BitrateCBR,
      SampleRate |-> DefaultSampleRate,
      NormalizationEnabled |-> TRUE,
      LoudnormParams  |-> "I=-23.0:TP=-1.0:LRA=7.0",
      HighpassEnabled |-> FALSE,
      HighpassFreq    |-> 80,
      LowpassEnabled  |-> FALSE,
      LowpassFreq     |-> 18000,
      MaxRetries |-> DefaultMaxRetries,
      RetryDelay |-> DefaultRetryDelay ]

\* outcomes a collaborator call can have
ExistsOutcomes == {"true", "false", "err"}
ProbeOutcomes == {"ok", "err", "malformed"}
ExecuteOutcomes == {"ok", "err"}

Envs == [ exists : ExistsOutcomes, probeIn : ProbeOutcomes,
          execute : ExecuteOutcomes, probeOut : ProbeOutcomes ]

ZeroMeta == [ Format |-> "", Codec |-> "" ]
ProbedMeta == [ Format |-> "wav", Codec |-> "pcm_s16le" ]

\* ------------------------------------------------------------------ Pipeline
\* validateInput with the bitrate check left out
validateInputNoBitrate(job, env) ==
    IF job.InputPath = "" THEN [ err |-> NewValidationError("inputPath"), calls |-> << >> ]
    ELSE IF job.OutputPath = "" THEN [ err |-> NewValidationError("outputPath"), calls |-> << >> ]
    ELSE IF env.exists = "err"
         THEN [ err |-> NewProcessingError("validate", RawErr), calls |-> << "Exists" >> ]
    ELSE IF env.exists = "false"
         THEN [ err |-> NewValidationError("inputPath"), calls |-> << "Exists" >> ]
    ELSE IF job.Options.SampleRate <= 0
         THEN [ err |-> NewValidationError("sampleRate"), calls |-> << "Exists" >> ]
    ELSE [ err |-> NoErr, calls |-> << "Exists" >> ]

\* a validation that reports a failed existence check as a bad request
validateInputStorageAsValidation(job, env) ==
    IF job.InputPath = "" THEN [ err |-> NewValidationError("inputPath"), calls |-> << >> ]
    ELSE IF job.OutputPath = "" THEN [ err |-> NewValidationError("outputPath"), calls |-> << >> ]
    ELSE IF env.exists = "err"
         THEN [ err |-> NewValidationError("inputPath"), calls |-> << "Exists" >> ]
    ELSE IF env.exists = "false"
         THEN [ err |-> NewValidationError("inputPath"), calls |-> << "Exists" >> ]
    ELSE IF job.Options.Bitrate <= 0
         THEN [ err |-> NewValidationError("bitrate"), calls |-> << "Exists" >> ]
    ELSE IF job.Options.SampleRate <= 0
         THEN [ err |-> NewValidationError("sampleRate"), calls |-> << "Exists" >> ]
    ELSE [ err |-> NoErr, calls |-> << "Exists" >> ]

\* Pipeline.validateInput: the error it returns, and whether storage.Exists was called
validateInput(job, env) ==
    IF job.InputPath = "" THEN [ err |-> NewValidationError("inputPath"), calls |-> << >> ]
    ELSE IF job.OutputPath = "" THEN [ err |-> NewValidationError("outputPath"), calls |-> << >> ]
    ELSE IF env.exists = "err"
         THEN [ err |-> NewProcessingError("validate", RawErr), calls |-> << "Exists" >> ]
    ELSE IF env.exists = "false"
         THEN [ err |-> NewValidationError("inputPath"), calls |-> << "Exists" >> ]
    ELSE IF job.Options.Bitrate <= 0
         THEN [ err |-> NewValidationError("bitrate"), calls |-> << "Exists" >> ]
    ELSE IF job.Options.SampleRate <= 0
         THEN [ err |-> NewValidationError("sampleRate"), calls |-> << "Exists" >> ]
    ELSE [ err |-> NoErr, calls |-> << "Exists" >> ]

\* Pipeline.probeFile on the given executor.Probe outcome
probeFile(outcome) ==
    IF outcome = "err" THEN [ meta |-> << >>, err |-> NewFFmpegError(RawErr) ]
    ELSE IF outcome = "malformed" THEN [ meta |-> << >>, err |-> FmtWrap(RawErr) ]
    ELSE [ meta |-> << ProbedMeta >>, err |-> NoErr ]

\* what an AAC encoder in VBR mode would get if the bitrate flag were kept
buildCodecArgsAacKeepsBitrate(opts) ==
    LET bitrate == ToString(opts.Bitrate \div 1000) \o "k"
        vbr == opts.BitrateMode = BitrateModeVBR
    IN  IF opts.Codec = CodecOpus
        THEN [ args |-> << "-c:a", "libopus", "-vbr", IF vbr THEN "on" ELSE "off",
                           "-b:a", bitrate >>, err |-> NoErr ]
        ELSE IF opts.Codec = CodecAAC
        THEN [ args |-> << "-c:a", "aac", "-b:a", bitrate >>, err |-> NoErr ]
        ELSE IF opts.Codec = CodecMP3
        THEN [ args |-> << "-c:a", "libmp3lame" >> \o
                        (IF vbr THEN << "-q:a", "2" >> ELSE << "-b:a", bitrate >>),
               err |-> NoErr ]
        ELSE [ args |-> << >>, err |-> RawErr ]

\* buildCodecArgs: bitrate := fmt.Sprintf("%dk", opts.Bitrate/1000), then the switch on
\* opts.Codec; args is nil when the codec is not supported
buildCodecArgs(opts) ==
    LET bitrate == ToString(opts.Bitrate \div 1000) \o "k"
        vbr == opts.BitrateMode = BitrateModeVBR
    IN  IF opts.Codec = CodecOpus
        THEN [ args |-> << "-c:a", "libopus", "-vbr", IF vbr THEN "on" ELSE "off",
                           "-b:a", bitrate >>, err |-> NoErr ]
        ELSE IF opts.Codec = CodecAAC
        THEN [ args |-> << "-c:a", "aac" >> \o
                        (IF vbr THEN << "-q:a", "2" >> ELSE << "-b:a", bitrate >>),
               err |-> NoErr ]
        ELSE IF opts.Codec = CodecMP3
        THEN [ args |-> << "-c:a", "libmp3lame" >> \o
                        (IF vbr THEN << "-q:a", "2" >> ELSE << "-b:a", bitrate >>),
               err |-> NoErr ]
        ELSE [ args |-> << >>, err |-> RawErr ]

\* strings.Join(elems, sep)
RECURSIVE Join(_, _)
Join(elems, sep) ==
    IF elems = << >> THEN ""
    ELSE IF Len(elems) = 1 THEN elems[1]
    ELSE elems[1] \o sep \o Join(Tail(elems), sep)

\* a filter chain that adds the lowpass before the highpass
FilterChainLowpassFirst(opts) ==
    LET f1 == IF opts.LowpassEnabled
              THEN << "lowpass=f=" \o ToString(opts.LowpassFreq) >> ELSE << >>
        f2 == IF opts.HighpassEnabled
              THEN f1 \o << "highpass=f=" \o ToString(opts.HighpassFreq) >> ELSE f1
    IN  IF opts.NormalizationEnabled
        THEN f2 \o << "loudnorm=" \o opts.LoudnormParams >> ELSE f2

\* runFFmpeg: the FilterChainBuilder's filters after AddHighpass, AddLowpass and
\* AddLoudnorm were called for the enabled toggles
FilterChain(opts) ==
    LET f1 == IF opts.HighpassEnabled
              THEN << "highpass=f=" \o ToString(opts.HighpassFreq) >> ELSE << >>
        f2 == IF opts.LowpassEnabled
              THEN f1 \o << "lowpass=f=" \o ToString(opts.LowpassFreq) >> ELSE f1
    IN  IF opts.NormalizationEnabled
        THEN f2 \o << "loudnorm=" \o opts.LoudnormParams >> ELSE f2

\* runFFmpeg: the argument list passed to executor.Execute (for a supported codec)
runFFmpegArgs(job) ==
    LET filterStr == Join(FilterChain(job.Options), ",")
    IN  << "-y", "-i", job.InputPath >>
        \o (IF filterStr # "" THEN << "-af", filterStr >> ELSE << >>)
        \o << "-ar", ToString(job.Options.SampleRate) >>
        \o buildCodecArgs(job.Options).args
        \o << job.OutputPath >>

\* a codec switch whose default case builds arguments too
buildCodecArgsErrAnyCodec(opts) == NoErr

\* buildCodecArgs: only whether the codec is supported matters to control flow
buildCodecArgsErr(opts) ==
    IF opts.Codec \in {CodecOpus, CodecAAC, CodecMP3} THEN NoErr ELSE RawErr

\* Pipeline.runFFmpeg
runFFmpeg(job, env) ==
    IF buildCodecArgsErr(job.Options) # NoErr
    THEN [ err |-> NewProcessingError("encode", buildCodecArgsErr(job.Options)),
           calls |-> << >>, reports |-> << >> ]
    ELSE [ err |-> IF env.execute = "ok" THEN NoErr ELSE NewFFmpegError(RawErr),
           calls |-> << "Execute" >>, reports |-> << 20 >> ]

\* a run that turns a failed output probe into a failure of the run
PipelineRunStrictOutput(job, env) ==
    LET v  == validateInput(job, env)
        pi == probeFile(env.probeIn)
        ff == runFFmpeg(job, env)
        po == probeFile(env.probeOut)
    IN  IF v.err # NoErr
        THEN [ result |-> << >>, err |-> v.err, calls |-> v.calls, reports |-> << >> ]
        ELSE IF pi.err # NoErr
        THEN [ result |-> << >>, err |-> NewProcessingError("probe", pi.err),
               calls |-> v.calls \o << "Probe" >>, reports |-> << >> ]
        ELSE IF ff.err # NoErr
        THEN [ result |-> << >>, err |-> ff.err,
               calls |-> v.calls \o << "Probe" >> \o ff.calls,
               reports |-> << 5 >> \o ff.reports ]
        ELSE IF po.err # NoErr
        THEN [ result |-> << >>, err |-> NewProcessingError("probe", po.err),
               calls |-> v.calls \o << "Probe" >> \o ff.calls \o << "Probe" >>,
               reports |-> << 5 >> \o ff.reports \o << 90 >> ]
        ELSE [ result |-> << [ InputMeta  |-> pi.meta[1],
                               OutputMeta |-> IF po.err # NoErr THEN ZeroMeta ELSE po.meta[1] ] >>,
               err |-> NoErr,
               calls |-> v.calls \o << "Probe" >> \o ff.calls \o << "Probe" >>,
               reports |-> << 5 >> \o ff.reports \o << 90, 100 >> ]

\* a run that still probes the output after the transformation failed
PipelineRunProbesAfterFailure(job, env) ==
    LET v  == validateInput(job, env)
        pi == probeFile(env.probeIn)
        ff == runFFmpeg(job, env)
        po == probeFile(env.probeOut)
    IN  IF v.err # NoErr
        THEN [ result |-> << >>, err |-> v.err, calls |-> v.calls, reports |-> << >> ]
        ELSE IF pi.err # NoErr
        THEN [ result |-> << >>, err |-> NewProcessingError("probe", pi.err),
               calls |-> v.calls \o << "Probe" >>, reports |-> << >> ]
        ELSE IF ff.err # NoErr
        THEN [ result |-> << >>, err |-> ff.err,
               calls |-> v.calls \o << "Probe" >> \o ff.calls \o << "Probe" >>,
               reports |-> << 5 >> \o ff.reports ]
        ELSE [ result |-> << [ InputMeta  |-> pi.meta[1],
                               OutputMeta |-> IF po.err # NoErr THEN ZeroMeta ELSE po.meta[1] ] >>,
               err |-> NoErr,
               calls |-> v.calls \o << "Probe" >> \o ff.calls \o << "Probe" >>,
               reports |-> << 5 >> \o ff.reports \o << 90, 100 >> ]

\* a run that reports "input probed" before it looks at the probe's error
PipelineRunReportsBeforeProbeCheck(job, env) ==
    LET v  == validateInput(job, env)
        pi == probeFile(env.probeIn)
        ff == runFFmpeg(job, env)
        po == probeFile(env.probeOut)
    IN  IF v.err # NoErr
        THEN [ result |-> << >>, err |-> v.err, calls |-> v.calls, reports |-> << >> ]
        ELSE IF pi.err # NoErr
        THEN [ result |-> << >>, err |-> NewProcessingError("probe", pi.err),
               calls |-> v.calls \o << "Probe" >>, reports |-> << 5 >> ]
        ELSE IF ff.err # NoErr
        THEN [ result |-> << >>, err |-> ff.err,
               calls |-> v.calls \o << "Probe" >> \o ff.calls,
               reports |-> << 5 >> \o ff.reports ]
        ELSE [ result |-> << [ InputMeta  |-> pi.meta[1],
                               OutputMeta |-> IF po.err # NoErr THEN ZeroMeta ELSE po.meta[1] ] >>,
               err |-> NoErr,
               calls |-> v.calls \o << "Probe" >> \o ff.calls \o << "Probe" >>,
               reports |-> << 5 >> \o ff.reports \o << 90, 100 >> ]

\* Pipeline.Run: result pointer, error, collaborator calls in order, progress percents in order
PipelineRun(job, env) ==
    LET v  == validateInput(job, env)
        pi == probeFile(env.probeIn)
        ff == runFFmpeg(job, env)
        po == probeFile(env.probeOut)
    IN  IF v.err # NoErr
        THEN [ result |-> << >>, err |-> v.err, calls |-> v.calls, reports |-> << >> ]
        ELSE IF pi.err # NoErr
        THEN [ result |-> << >>, err |-> NewProcessingError("probe", pi.err),
               calls |-> v.calls \o << "Probe" >>, reports |-> << >> ]
        ELSE IF ff.err # NoErr
        THEN [ result |-> << >>, err |-> ff.err,
               calls |-> v.calls \o << "Probe" >> \o ff.calls,
               reports |-> << 5 >> \o ff.reports ]
        ELSE [ result |-> << [ InputMeta  |-> pi.meta[1],
                               OutputMeta |-> IF po.err # NoErr THEN ZeroMeta ELSE po.meta[1] ] >>,
               err |-> NoErr,
               calls |-> v.calls \o << "Probe" >> \o ff.calls \o << "Probe" >>,
               reports |-> << 5 >> \o ff.reports \o << 90, 100 >> ]

\* number of occurrences of a call name in a call sequence
CountCalls(calls, name) == Cardinality({ i \in 1..Len(calls) : calls[i] = name })


\* ------------------------------------------------------------------- state
VARIABLES
    ctxErr,        \* ctx.Err() of the ambient context: NoErr until cancelled
    \* --- WorkerPool.Run (batch mode)
    jobs,          \* the submitted []model.BatchJob
    workers,       \* wp.workers
    dpc,           \* position of the dispatcher goroutine
    cur,           \* the dispatcher's loop variable `job` (index into jobs, 0 = none)
    jobCh,         \* buffered channel jobCh, as the sequence of job indexes still queued
    semaphore,     \* number of tokens in the semaphore channel
    wg,            \* sync.WaitGroup counter
    wpc,           \* position of the worker goroutine of each job
    wres,          \* the BatchResult each worker computed (before it is sent)
    results,       \* buffer of the results channel
    closed,        \* results channel closed
    runs,          \* per job: calls of Pipeline.Run
    calls,         \* per job: collaborator calls made, in order
    reported,      \* per job: the progress.Update values its pipeline run emitted, in order
    pipelineErr,   \* per job: the error wp.pipeline.Run returned inside processJob
    shortCircuited,\* jobs for which the dispatcher took the ctx.Done() branch
    ctxAtRun,      \* ctx.Err() at the moment WorkerPool.Run was called
    \* --- AudioService.ProcessAudio / retry.Do (single-job mode)
    paPc,          \* position inside ProcessAudio / retry.Do
    paJob,         \* the pipeline.Job built by ProcessAudio
    doCfg,         \* retry.Do: the retry.Config it was called with
    doErr,         \* retry.Do: the error it returned
    attempt,       \* retry.Do: loop variable
    delay,         \* retry.Do: current backoff delay
    lastErr,       \* retry.Do: lastErr
    paResult,      \* ProcessAudio: the captured `result` pointer
    paRunErrs,     \* errors returned by the successive Pipeline.Run calls
    waits,         \* backoff waits that elapsed, in order
    paCalls,       \* collaborator calls made by the whole ProcessAudio call
    paReports,     \* progress percents emitted by the whole ProcessAudio call
    paRet,         \* what ProcessAudio returned: [result, err, panic]
    ctxAt,         \* where the call stood when ctx was cancelled: [pc, runs]; << >> while it is not
    \* --- a batch job and the caller's ProcessingOptions object it points to
    optHeap,       \* the ProcessingOptions object the caller and the jobs share
    optPc,         \* per job: how far processJob / Pipeline.Run has got
    optSeen,       \* per job: the options read when the job was built, validated, its command built
    optWrites,     \* number of writes the caller made to the object
    \* --- command construction on its own
    argJob,        \* the pipeline Job whose command is built
    codecRes,      \* what the successive calls of buildCodecArgs returned
    argv,          \* the argument list runFFmpeg hands to Execute, as << args >>
    \* --- AudioService
    svcRetryCfg,   \* s.retryCfg, as NewAudioService stored it
    \* --- probing one input file, through ProbeAudio and inside Pipeline.Run
    probeEnv,      \* the outcomes the collaborators have for that file, as << env >>
    probeRet,      \* what ProbeAudio returned, as << [meta, err] >>
    runRet,        \* what Pipeline.Run returned for the same file, as << [result, err] >>
    \* --- progress.MultiReporter, the goroutines calling Add and Report on it
    muWriter,      \* m.mu: the goroutine holding the write lock, as a set (empty or one)
    muPending,     \* m.mu: the goroutines blocked in Lock()
    muReaders,     \* m.mu: the goroutines holding the read lock
    mReporters,    \* m.reporters
    mTorn,         \* an append to m.reporters has begun and its slice header is not yet stored
    tornSeen,      \* some Report read m.reporters while an append was under way
    addPc,         \* per adding goroutine: position inside Add
    repCallPc,     \* per reporting goroutine: position inside Report
    began,         \* per reporting goroutine: the reporters present or added when Report was called
    snap,          \* per reporting goroutine: the slice its range statement evaluated
    idx,           \* per reporting goroutine: loop index of the range
    received,      \* per sub-reporter: the updates its Report was called with, in order
    \* --- progress.ChannelReporter, the jobs reporting through it and the subscriber
    repNil,        \* the subscriber channel r.ch is nil
    repCap,        \* capacity of the subscriber channel
    repCh,         \* buffer of the subscriber channel
    repPlan,       \* per job: the percents its pipeline run reports, in order
    repPos,        \* per job: how many of them it has reported
    repReceived,   \* per job: the percents the subscriber received, in order
    subWaiting     \* the subscriber is blocked in a receive on the channel

batchVars == << jobs, workers, dpc, cur, jobCh, semaphore, wg, wpc, wres, results,
                closed, runs, calls, reported, pipelineErr, shortCircuited, ctxAtRun >>

paVars == << paPc, paJob, doCfg, doErr, attempt, delay, lastErr, paResult, paRunErrs, waits,
             paCalls, paReports, paRet, ctxAt >>

optVars == << optHeap, optPc, optSeen, optWrites >>

repVars == << repNil, repCap, repCh, repPlan, repPos, repReceived, subWaiting >>

argVars == << argJob, codecRes, argv >>

svcVars == << svcRetryCfg >>

probeVars == << probeEnv, probeRet, runRet >>

multiVars == << muWriter, muPending, muReaders, mReporters, mTorn, tornSeen, addPc, repCallPc,
               began, snap, idx, received >>

auxVars == << optVars, repVars, argVars, svcVars, probeVars, multiVars >>

\* everything a step on the MultiReporter leaves alone
multiOthers == << ctxErr, batchVars, paVars, optVars, repVars, argVars, svcVars, probeVars >>

\* everything a probe of the input file leaves alone
probeOthers == << ctxErr, batchVars, paVars, optVars, repVars, argVars, svcVars,
               multiVars >>

\* everything a step of command construction leaves alone
argOthers == << ctxErr, batchVars, paVars, optVars, repVars, svcVars, probeVars,
               multiVars >>

\* everything a step on the shared options object leaves alone
optOthers == << ctxErr, batchVars, paVars, repVars, argVars, svcVars, probeVars,
               multiVars >>

\* everything a step of the progress reporter or its subscriber leaves alone
repOthers == << ctxErr, batchVars, paVars, optVars, argVars, svcVars, probeVars,
               multiVars >>

vars == << ctxErr, batchVars, paVars, auxVars >>

\* ---------------------------------------------------------------- batch jobs
\* the shapes of BatchJob the model submits
BatchJobShapes ==
    { [ InputPath |-> "in.wav", OutputPath |-> "out.opus", Options |-> << >> ],
      [ InputPath |-> "in.wav", OutputPath |-> "out.opus",
        Options |-> << [ DefaultProcessingOptions EXCEPT !.Bitrate = -1 ] >> ] }

JobIds == 1..Len(jobs)

NoResult == [ JobID |-> 0, Result |-> << >>, Err |-> NoErr ]

\* collaborator outcomes drawn in batch mode: one per kind of pipeline outcome
BatchEnvs == { env \in Envs : env.probeIn # "malformed" /\ env.probeOut = "ok" }

\* Job.report: the progress.Update handed to the reporter
report(job, percent) == [ JobID |-> job.ID, Percent |-> percent ]

\* the updates one pipeline run of the job emits, from the percents it reports
Updates(job, percents) == [ i \in 1..Len(percents) |-> report(job, percents[i]) ]

\* a processJob that formats the pipeline's error with %v: the message is kept, the
\* Unwrap chain is not
processJobFlattensError(job, env) ==
    LET opts == IF job.Options = << >> THEN DefaultProcessingOptions ELSE job.Options[1]
        pipelineJob == [ ID |-> job.ID, InputPath |-> job.InputPath,
                         OutputPath |-> job.OutputPath, Options |-> opts ]
        r == PipelineRun(pipelineJob, env)
    IN  IF r.err # NoErr
        THEN [ result |-> << >>, err |-> << [t |-> "fmt"] >>, runErr |-> r.err,
               calls |-> r.calls, reports |-> Updates(pipelineJob, r.reports) ]
        ELSE [ result |-> r.result, err |-> NoErr, runErr |-> r.err,
               calls |-> r.calls, reports |-> Updates(pipelineJob, r.reports) ]

\* a processJob that runs a job submitted without options under zero-valued options
processJobZeroOptions(job, env) ==
    LET opts == IF job.Options = << >>
                THEN [ DefaultProcessingOptions EXCEPT !.Bitrate = 0, !.SampleRate = 0 ]
                ELSE job.Options[1]
        pipelineJob == [ ID |-> job.ID, InputPath |-> job.InputPath,
                         OutputPath |-> job.OutputPath, Options |-> opts ]
        r == PipelineRun(pipelineJob, env)
    IN  IF r.err # NoErr
        THEN [ result |-> << >>, err |-> FmtWrap(r.err), runErr |-> r.err,
               calls |-> r.calls, reports |-> Updates(pipelineJob, r.reports) ]
        ELSE [ result |-> r.result, err |-> NoErr, runErr |-> r.err,
               calls |-> r.calls, reports |-> Updates(pipelineJob, r.reports) ]

\* WorkerPool.processJob: what it returns (result, err), the error the pipeline run
\* returned to it (runErr), and what the pipeline run did (collaborator calls, updates)
processJob(job, env) ==
    LET opts == IF job.Options = << >> THEN DefaultProcessingOptions ELSE job.Options[1]
        pipelineJob == [ ID |-> job.ID, InputPath |-> job.InputPath,
                         OutputPath |-> job.OutputPath, Options |-> opts ]
        r == PipelineRun(pipelineJob, env)
    IN  IF r.err # NoErr
        THEN [ result |-> << >>, err |-> FmtWrap(r.err), runErr |-> r.err,
               calls |-> r.calls, reports |-> Updates(pipelineJob, r.reports) ]
        ELSE [ result |-> r.result, err |-> NoErr, runErr |-> r.err,
               calls |-> r.calls, reports |-> Updates(pipelineJob, r.reports) ]

\* a results channel sized by the worker count instead of the job count
ResultsCapWorkers == workers

\* capacity of the results channel: make(chan model.BatchResult, len(jobs))
ResultsCap == Len(jobs)

\* a semaphore with one slot too many
SemaphoreCapOffByOne == workers + 1

\* capacity of the semaphore channel: make(chan struct{}, wp.workers)
SemaphoreCap == workers

\* a dispatcher that does not wait for the workers
WgWaitSkipped == TRUE

\* wg.Wait() can return
WgWaitReturns == wg = 0

\* no shared options object is in play
OptIdle == optHeap = << >> /\ optPc = << >> /\ optSeen = << >> /\ optWrites = 0

\* no progress channel is in play
RepIdle ==
    /\ repNil = TRUE /\ repCap = 0 /\ repCh = << >> /\ repPlan = << >> /\ repPos = << >>
    /\ repReceived = << >> /\ subWaiting = FALSE

\* no command is being built on its own
ArgIdle == argJob = << >> /\ codecRes = << >> /\ argv = << >>

\* no service has been constructed
SvcIdle == svcRetryCfg = << >>

\* no file is being probed on its own
ProbeIdle == probeEnv = << >> /\ probeRet = << >> /\ runRet = << >>

\* no MultiReporter is in play
MultiIdle ==
    /\ muWriter = {} /\ muPending = {} /\ muReaders = {} /\ mReporters = << >>
    /\ mTorn = FALSE /\ tornSeen = FALSE /\ addPc = << >> /\ repCallPc = << >>
    /\ began = << >> /\ snap = << >> /\ idx = << >> /\ received = << >>

AuxIdle == OptIdle /\ RepIdle /\ ArgIdle /\ SvcIdle /\ ProbeIdle /\ MultiIdle

PaIdle ==
    /\ paPc = "idle" /\ paJob = << >> /\ doCfg = << >> /\ doErr = NoErr
    /\ attempt = 0 /\ delay = 0 /\ lastErr = NoErr
    /\ paResult = << >> /\ paRunErrs = << >> /\ waits = << >> /\ paCalls = << >>
    /\ paReports = << >> /\ paRet = << >> /\ ctxAt = << >>

BatchIdle ==
    /\ jobs = << >> /\ workers = 1 /\ dpc = "idle" /\ cur = 0 /\ jobCh = << >>
    /\ semaphore = 0 /\ wg = 0 /\ wpc = << >> /\ wres = << >> /\ results = << >>
    /\ closed = FALSE /\ runs = << >> /\ calls = << >>
    /\ reported = << >> /\ pipelineErr = << >>
    /\ shortCircuited = {} /\ ctxAtRun = NoErr

\* ------------------------------------------------------- WorkerPool.Run
Init ==
    /\ ctxErr \in {NoErr, ErrCanceled}
    /\ \E n \in 0..MaxJobs : \E shapes \in [1..n -> BatchJobShapes] :
         jobs = [ i \in 1..n |-> [ ID |-> i, InputPath |-> shapes[i].InputPath,
                                   OutputPath |-> shapes[i].OutputPath,
                                   Options |-> shapes[i].Options ] ]
    /\ workers \in 1..MaxWorkers
    /\ dpc = "idle" /\ cur = 0 /\ jobCh = << >>
    /\ semaphore = 0 /\ wg = 0
    /\ wpc = [ i \in JobIds |-> "none" ]
    /\ wres = [ i \in JobIds |-> NoResult ]
    /\ results = << >> /\ closed = FALSE
    /\ runs = [ i \in JobIds |-> 0 ]
    /\ calls = [ i \in JobIds |-> << >> ]
    /\ reported = [ i \in JobIds |-> << >> ]
    /\ pipelineErr = [ i \in JobIds |-> NoErr ]
    /\ shortCircuited = {} /\ ctxAtRun = NoErr
    /\ PaIdle
    /\ AuxIdle

\* WorkerPool.Run is called: the channel is made, the goroutine started and jobCh filled
RunCall ==
    /\ dpc = "idle"
    /\ dpc' = "range"
    /\ jobCh' = [ i \in JobIds |-> i ]
    /\ ctxAtRun' = ctxErr
    /\ UNCHANGED << ctxErr, auxVars, jobs, workers, cur, semaphore, wg, wpc, wres, results, closed,
                    runs, calls, reported, pipelineErr, shortCircuited, paVars >>

\* select case <-ctx.Done(): taken for the next queued job
DispatcherSelectDone ==
    /\ dpc = "range" /\ jobCh # << >>
    /\ ctxErr # NoErr
    /\ cur' = Head(jobCh) /\ jobCh' = Tail(jobCh)
    /\ shortCircuited' = shortCircuited \cup {Head(jobCh)}
    /\ dpc' = "sendcancel"
    /\ UNCHANGED << ctxErr, auxVars, jobs, workers, semaphore, wg, wpc, wres, results, closed,
                    runs, calls, reported, pipelineErr, ctxAtRun, paVars >>

\* the ctx.Done() branch without its send: the cancelled job gets no BatchResult
DispatcherSendCancelLost ==
    /\ dpc = "sendcancel"
    /\ cur' = 0
    /\ dpc' = "range"
    /\ UNCHANGED << ctxErr, auxVars, jobs, workers, jobCh, semaphore, wg, wpc, wres, results, closed,
                    runs, calls, reported, pipelineErr, shortCircuited, ctxAtRun, paVars >>

\* the ctx.Done() branch without its continue: it falls through to wg.Add(1) and go func
DispatcherSendCancelFallsThrough ==
    /\ dpc = "sendcancel"
    /\ Len(results) < ResultsCap
    /\ results' = Append(results, [ JobID |-> jobs[cur].ID, Result |-> << >>, Err |-> ctxErr ])
    /\ wg' = wg + 1
    /\ wpc' = [ wpc EXCEPT ![cur] = "run" ]
    /\ cur' = 0
    /\ dpc' = "range"
    /\ UNCHANGED << ctxErr, auxVars, jobs, workers, jobCh, semaphore, wres, closed,
                    runs, calls, reported, pipelineErr, shortCircuited, ctxAtRun, paVars >>

\* the ctx.Done() branch sending a BatchResult that carries the job's ID and nothing else
DispatcherSendCancelNoErr ==
    /\ dpc = "sendcancel"
    /\ Len(results) < ResultsCap
    /\ results' = Append(results, [ JobID |-> jobs[cur].ID, Result |-> << >>, Err |-> NoErr ])
    /\ cur' = 0
    /\ dpc' = "range"
    /\ UNCHANGED << ctxErr, auxVars, jobs, workers, jobCh, semaphore, wg, wpc, wres, closed,
                    runs, calls, reported, pipelineErr, shortCircuited, ctxAtRun, paVars >>

\* results <- BatchResult{JobID: job.ID, Err: ctx.Err()}; continue
DispatcherSendCancel ==
    /\ dpc = "sendcancel"
    /\ Len(results) < ResultsCap
    /\ results' = Append(results, [ JobID |-> jobs[cur].ID, Result |-> << >>, Err |-> ctxErr ])
    /\ cur' = 0
    /\ dpc' = "range"
    /\ UNCHANGED << ctxErr, auxVars, jobs, workers, jobCh, semaphore, wg, wpc, wres, closed,
                    runs, calls, reported, pipelineErr, shortCircuited, ctxAtRun, paVars >>

\* select case semaphore <- struct{}{}: then wg.Add(1) and go func(j)
DispatcherAdmit ==
    /\ dpc = "range" /\ jobCh # << >>
    /\ semaphore < SemaphoreCap
    /\ semaphore' = semaphore + 1
    /\ wg' = wg + 1
    /\ wpc' = [ wpc EXCEPT ![Head(jobCh)] = "run" ]
    /\ jobCh' = Tail(jobCh)
    /\ UNCHANGED << ctxErr, auxVars, jobs, workers, dpc, cur, wres, results, closed,
                    runs, calls, reported, pipelineErr, shortCircuited, ctxAtRun, paVars >>

\* the range over the closed jobCh ends
DispatcherDrained ==
    /\ dpc = "range" /\ jobCh = << >>
    /\ dpc' = "wait"
    /\ UNCHANGED << ctxErr, auxVars, jobs, workers, cur, jobCh, semaphore, wg, wpc, wres, results,
                    closed, runs, calls, reported, pipelineErr, shortCircuited, ctxAtRun, paVars >>

\* wg.Wait() returns and the deferred close(results) runs
DispatcherClose ==
    /\ dpc = "wait"
    /\ WgWaitReturns
    /\ closed' = TRUE
    /\ dpc' = "done"
    /\ UNCHANGED << ctxErr, auxVars, jobs, workers, cur, jobCh, semaphore, wg, wpc, wres, results,
                    runs, calls, reported, pipelineErr, shortCircuited, ctxAtRun, paVars >>

\* a worker whose failure abandons the jobs still queued
WorkerProcessJobAborts(j) ==
    /\ wpc[j] = "run"
    /\ \E r \in { processJob(jobs[j], env) : env \in BatchEnvs } :
         /\ wres' = [ wres EXCEPT ![j] = [ JobID |-> jobs[j].ID, Result |-> r.result, Err |-> r.err ] ]
         /\ calls' = [ calls EXCEPT ![j] = @ \o r.calls ]
         /\ reported' = [ reported EXCEPT ![j] = @ \o r.reports ]
         /\ pipelineErr' = [ pipelineErr EXCEPT ![j] = r.runErr ]
         /\ jobCh' = IF r.err # NoErr THEN << >> ELSE jobCh
    /\ runs' = [ runs EXCEPT ![j] = @ + 1 ]
    /\ wpc' = [ wpc EXCEPT ![j] = "send" ]
    /\ UNCHANGED << ctxErr, auxVars, jobs, workers, dpc, cur, semaphore, wg, results, closed,
                    shortCircuited, ctxAtRun, paVars >>

\* a worker that runs a failed job a second time
WorkerProcessJobRetries(j) ==
    /\ wpc[j] = "run"
    /\ \E r \in { processJob(jobs[j], env) : env \in BatchEnvs } :
         /\ wres' = [ wres EXCEPT ![j] = [ JobID |-> jobs[j].ID, Result |-> r.result, Err |-> r.err ] ]
         /\ calls' = [ calls EXCEPT ![j] = @ \o r.calls ]
         /\ reported' = [ reported EXCEPT ![j] = @ \o r.reports ]
         /\ pipelineErr' = [ pipelineErr EXCEPT ![j] = r.runErr ]
         /\ wpc' = [ wpc EXCEPT ![j] = IF r.err # NoErr /\ runs[j] = 0 THEN "run" ELSE "send" ]
    /\ runs' = [ runs EXCEPT ![j] = @ + 1 ]
    /\ UNCHANGED << ctxErr, auxVars, jobs, workers, dpc, cur, jobCh, semaphore, wg, results, closed,
                    shortCircuited, ctxAtRun, paVars >>

\* worker: result, err := wp.processJob(ctx, j, reporter)
WorkerProcessJob(j) ==
    /\ wpc[j] = "run"
    /\ \E r \in { processJob(jobs[j], env) : env \in BatchEnvs } :
         /\ wres' = [ wres EXCEPT ![j] = [ JobID |-> jobs[j].ID, Result |-> r.result, Err |-> r.err ] ]
         /\ calls' = [ calls EXCEPT ![j] = @ \o r.calls ]
         /\ reported' = [ reported EXCEPT ![j] = @ \o r.reports ]
         /\ pipelineErr' = [ pipelineErr EXCEPT ![j] = r.runErr ]
    /\ runs' = [ runs EXCEPT ![j] = @ + 1 ]
    /\ wpc' = [ wpc EXCEPT ![j] = "send" ]
    /\ UNCHANGED << ctxErr, auxVars, jobs, workers, dpc, cur, jobCh, semaphore, wg, results, closed,
                    shortCircuited, ctxAtRun, paVars >>

\* worker: results <- model.BatchResult{...}
WorkerSend(j) ==
    /\ wpc[j] = "send"
    /\ Len(results) < ResultsCap
    /\ results' = Append(results, wres[j])
    /\ wpc' = [ wpc EXCEPT ![j] = "release" ]
    /\ UNCHANGED << ctxErr, auxVars, jobs, workers, dpc, cur, jobCh, semaphore, wg, wres, closed,
                    runs, calls, reported, pipelineErr, shortCircuited, ctxAtRun, paVars >>

\* a worker whose deferred function leaves the semaphore alone
WorkerReleaseLeaks(j) ==
    /\ wpc[j] = "release"
    /\ wpc' = [ wpc EXCEPT ![j] = "wgdone" ]
    /\ UNCHANGED << ctxErr, auxVars, jobs, workers, dpc, cur, jobCh, semaphore, wg, wres, results,
                    closed, runs, calls, reported, pipelineErr, shortCircuited, ctxAtRun,
                    paVars >>

\* worker: deferred func() { <-semaphore }()
WorkerRelease(j) ==
    /\ wpc[j] = "release"
    /\ semaphore > 0
    /\ semaphore' = semaphore - 1
    /\ wpc' = [ wpc EXCEPT ![j] = "wgdone" ]
    /\ UNCHANGED << ctxErr, auxVars, jobs, workers, dpc, cur, jobCh, wg, wres, results, closed,
                    runs, calls, reported, pipelineErr, shortCircuited, ctxAtRun, paVars >>

\* worker: deferred wg.Done(), after which the goroutine is gone
WorkerDone(j) ==
    /\ wpc[j] = "wgdone"
    /\ wg' = wg - 1
    /\ wpc' = [ wpc EXCEPT ![j] = "exit" ]
    /\ UNCHANGED << ctxErr, auxVars, jobs, workers, dpc, cur, jobCh, semaphore, wres, results, closed,
                    runs, calls, reported, pipelineErr, shortCircuited, ctxAtRun, paVars >>

\* a ProcessBatch that hands back an open channel for zero jobs
ProcessBatchEmptyLeftOpen ==
    /\ dpc = "idle"
    /\ Len(jobs) = 0
    /\ dpc' = "none"
    /\ closed' = FALSE
    /\ UNCHANGED << ctxErr, auxVars, jobs, workers, cur, jobCh, semaphore, wg, wpc, wres, results,
                    runs, calls, reported, pipelineErr, shortCircuited, ctxAtRun, paVars >>

\* ProcessBatch with len(jobs) == 0: ch := make(chan BatchResult); close(ch); return ch, nil
\* no dispatcher goroutine is started
ProcessBatchEmpty ==
    /\ dpc = "idle"
    /\ Len(jobs) = 0
    /\ dpc' = "none"
    /\ closed' = TRUE
    /\ UNCHANGED << ctxErr, auxVars, jobs, workers, cur, jobCh, semaphore, wg, wpc, wres, results,
                    runs, calls, reported, pipelineErr, shortCircuited, ctxAtRun, paVars >>

\* the caller cancels the ambient context
Cancel ==
    /\ ctxErr = NoErr
    /\ dpc # "done"
    /\ ctxErr' = ErrCanceled
    /\ UNCHANGED << auxVars, batchVars, paVars >>

Dispatcher ==
    \/ DispatcherSelectDone
    \/ DispatcherSendCancel
    \/ DispatcherAdmit
    \/ DispatcherDrained
    \/ DispatcherClose

Worker(j) ==
    \/ WorkerProcessJob(j)
    \/ WorkerSend(j)
    \/ WorkerRelease(j)
    \/ WorkerDone(j)

Next ==
    \/ RunCall
    \/ ProcessBatchEmpty
    \/ Dispatcher
    \/ \E j \in JobIds : Worker(j)
    \/ Cancel

Spec == Init /\ [][Next]_vars

\* the Go scheduler keeps running some runnable goroutine: as long as the
\* dispatcher or a worker can take a step, one of them eventually does; the
\* canceller is under no obligation
Program == RunCall \/ Dispatcher \/ \E j \in JobIds : Worker(j)

Fairness == WF_vars(Program)

FairSpec == Spec /\ Fairness


\* ---------------------------------------- AudioService.ProcessAudio / retry.Do
\* what the ProcessAudio caller can pass: paths, and options set through ports.With*
ProcessAudioInputs ==
    { [ ID |-> 1, InputPath |-> ip, OutputPath |-> op,
        Options |-> [ DefaultProcessingOptions EXCEPT
                        !.Codec = cd, !.Bitrate = br, !.SampleRate = sr,
                        !.MaxRetries = mr ] ] :
      ip \in {"", "in.wav"}, op \in {"", "out.opus"},
      cd \in {CodecOpus, "flac"},
      br \in {DefaultBitrate, 0}, sr \in {DefaultSampleRate, 0},
      mr \in 0..MaxRetriesBound }

\* retry.DefaultConfig()
DefaultConfig == [ MaxAttempts |-> 3, Delay |-> 1, Multiplier |-> 2, MaxDelay |-> 30 ]

\* the Config.RetryConfig values a service is constructed with: the zero value, and
\* one attempt with its own delays
ServiceRetryConfigs ==
    { [ MaxAttempts |-> 0, Delay |-> 0, Multiplier |-> 0, MaxDelay |-> 0 ],
      [ MaxAttempts |-> 1, Delay |-> 5, Multiplier |-> 3, MaxDelay |-> 10 ] }

\* NewAudioService: the retryCfg it stores in the service
NewAudioService(cfg) ==
    IF cfg.RetryConfig.MaxAttempts = 0 THEN DefaultConfig ELSE cfg.RetryConfig

InitPA ==
    /\ ctxErr \in {NoErr, ErrCanceled}
    /\ BatchIdle
    /\ OptIdle /\ RepIdle /\ ArgIdle /\ ProbeIdle /\ MultiIdle
    /\ svcRetryCfg \in { << NewAudioService([ RetryConfig |-> rc ]) >> :
                            rc \in ServiceRetryConfigs }
    /\ paPc = "start"
    /\ paJob \in { << j >> : j \in ProcessAudioInputs }
    /\ doCfg = << >> /\ doErr = NoErr /\ attempt = 0 /\ delay = 0 /\ lastErr = NoErr
    /\ paResult = << >> /\ paRunErrs = << >> /\ waits = << >> /\ paCalls = << >>
    /\ paReports = << >> /\ paRet = << >>
    /\ ctxAt = IF ctxErr = NoErr THEN << >> ELSE << [ pc |-> "start", runs |-> 0 ] >>

\* a closure that hands every error, validation included, back to retry.Do
fnReturnEveryError(runErr) == runErr

\* the closure passed to retry.Do: what it returns for the error of Pipeline.Run
fnReturn(runErr) ==
    IF runErr # NoErr /\ isValidationError(runErr) THEN NoErr ELSE runErr

\* a backoff that grows by addition instead of multiplication
NextDelayAdditive(d, cfg) ==
    IF d + cfg.Multiplier > cfg.MaxDelay THEN cfg.MaxDelay ELSE d + cfg.Multiplier

\* delay = time.Duration(float64(delay) * cfg.Multiplier), capped at cfg.MaxDelay
NextDelay(d, cfg) ==
    IF d * cfg.Multiplier > cfg.MaxDelay THEN cfg.MaxDelay ELSE d * cfg.Multiplier

\* ProcessAudio builds the job and calls retry.Do(ctx, cfg, fn)
ProcessAudioCallsDo ==
    /\ paPc = "start"
    /\ doCfg' = << [ MaxAttempts |-> paJob[1].Options.MaxRetries,
                     Delay       |-> paJob[1].Options.RetryDelay,
                     Multiplier  |-> RetryMultiplier,
                     MaxDelay    |-> RetryMaxDelay ] >>
    /\ delay' = paJob[1].Options.RetryDelay
    /\ attempt' = 0
    /\ lastErr' = NoErr
    /\ paPc' = "loop"
    /\ UNCHANGED << ctxErr, auxVars, batchVars, paJob, doErr, paResult, paRunErrs, waits,
                    paCalls, paReports, paRet, ctxAt >>

\* retry.Do: loop condition, then the ctx.Err() check at the head of the body
DoLoopHead ==
    /\ paPc = "loop"
    /\ IF attempt < doCfg[1].MaxAttempts
       THEN IF ctxErr # NoErr
            THEN doErr' = ctxErr /\ paPc' = "ret"
            ELSE doErr' = doErr /\ paPc' = "fn"
       ELSE doErr' = lastErr /\ paPc' = "ret"
    /\ UNCHANGED << ctxErr, auxVars, batchVars, paJob, doCfg, attempt, delay, lastErr, paResult,
                    paRunErrs, waits, paCalls, paReports, paRet, ctxAt >>

\* a loop body without the break on the last attempt
DoAfterFnNoBreak(e) ==
    /\ lastErr' = e
    /\ IF e = NoErr
       THEN doErr' = NoErr /\ paPc' = "ret"
       ELSE doErr' = doErr /\ paPc' = "backoff"

\* retry.Do: lastErr = fn() has given e; return nil on success, break on the last attempt,
\* otherwise go on to the backoff select
DoAfterFn(e) ==
    /\ lastErr' = e
    /\ IF e = NoErr
       THEN doErr' = NoErr /\ paPc' = "ret"
       ELSE IF attempt = doCfg[1].MaxAttempts - 1
            THEN doErr' = e /\ paPc' = "ret"
            ELSE doErr' = doErr /\ paPc' = "backoff"

\* a closure whose later runs resume after the existence check of an earlier run
DoAttemptSkipsValidation ==
    /\ paPc = "fn"
    /\ \E r \in { PipelineRun(paJob[1], env) : env \in Envs } :
         /\ paResult' = r.result
         /\ paRunErrs' = Append(paRunErrs, r.err)
         /\ paCalls' = paCalls \o (IF paRunErrs # << >> /\ r.calls # << >>
                                   THEN Tail(r.calls) ELSE r.calls)
         /\ paReports' = paReports \o r.reports
         /\ DoAfterFn(fnReturn(r.err))
    /\ UNCHANGED << ctxErr, auxVars, batchVars, paJob, doCfg, attempt, delay, waits, paRet, ctxAt >>

\* retry.Do: lastErr = fn(), where fn runs the pipeline; then the two exits of the body
DoAttempt ==
    /\ paPc = "fn"
    /\ \E r \in { PipelineRun(paJob[1], env) : env \in Envs } :
         /\ paResult' = r.result
         /\ paRunErrs' = Append(paRunErrs, r.err)
         /\ paCalls' = paCalls \o r.calls
         /\ paReports' = paReports \o r.reports
         /\ DoAfterFn(fnReturn(r.err))
    /\ UNCHANGED << ctxErr, auxVars, batchVars, paJob, doCfg, attempt, delay, waits, paRet, ctxAt >>

\* a backoff that sleeps through the cancellation
DoBackoffSleeps ==
    /\ FALSE
    /\ UNCHANGED vars

\* retry.Do: select case <-ctx.Done()
DoBackoffCancelled ==
    /\ paPc = "backoff"
    /\ ctxErr # NoErr
    /\ doErr' = ctxErr
    /\ paPc' = "ret"
    /\ UNCHANGED << ctxErr, auxVars, batchVars, paJob, doCfg, attempt, delay, lastErr, paResult,
                    paRunErrs, waits, paCalls, paReports, paRet, ctxAt >>

\* retry.Do: select case <-time.After(delay), then the delay update and attempt++
DoBackoffElapsed ==
    /\ paPc = "backoff"
    /\ waits' = Append(waits, delay)
    /\ delay' = NextDelay(delay, doCfg[1])
    /\ attempt' = attempt + 1
    /\ paPc' = "loop"
    /\ UNCHANGED << ctxErr, auxVars, batchVars, paJob, doCfg, doErr, lastErr, paResult,
                    paRunErrs, paCalls, paReports, paRet, ctxAt >>

\* ProcessAudio after retry.Do: return the error, or log result.Duration and return result
ProcessAudioReturn ==
    /\ paPc = "ret"
    /\ paRet' = IF doErr # NoErr
                THEN << [ result |-> << >>, err |-> doErr, panic |-> FALSE ] >>
                ELSE IF paResult = << >>
                     THEN << [ result |-> << >>, err |-> NoErr, panic |-> TRUE ] >>
                     ELSE << [ result |-> paResult, err |-> NoErr, panic |-> FALSE ] >>
    /\ paPc' = "done"
    /\ UNCHANGED << ctxErr, auxVars, batchVars, paJob, doCfg, doErr, attempt, delay, lastErr,
                    paResult, paRunErrs, waits, paCalls, paReports, ctxAt >>

\* the caller cancels the context, or the options.Timeout deadline passes
ProcessAudioCancel ==
    /\ ctxErr = NoErr
    /\ paPc # "done"
    /\ ctxErr' \in {ErrCanceled, ErrDeadline}
    /\ ctxAt' = << [ pc |-> paPc, runs |-> Len(paRunErrs) ] >>
    /\ UNCHANGED << auxVars, batchVars, paJob, doCfg, doErr, attempt, delay, lastErr, paResult,
                    paRunErrs, waits, paCalls, paReports, paRet, paPc >>

NextPA ==
    \/ ProcessAudioCallsDo
    \/ DoLoopHead
    \/ DoAttempt
    \/ DoBackoffCancelled
    \/ DoBackoffElapsed
    \/ ProcessAudioReturn
    \/ ProcessAudioCancel

SpecPA == InitPA /\ [][NextPA]_vars

-----------------------------------------------------------------------------
\* retry.Do on its own: any Config, any unit of work

\* the error the unit of work returns on its n-th invocation
UnitErr(n) == << [ t |-> "unit", n |-> n ] >>

\* the configurations retry.Do is called with
DoConfigs ==
    [ MaxAttempts : 0..MaxRetriesBound, Delay : {1, 40}, Multiplier : {1, 2, 3},
      MaxDelay : {3, 30} ]

\* retry.Do is entered: delay := cfg.Delay, attempt := 0, lastErr is nil
InitDo ==
    /\ BatchIdle
    /\ AuxIdle
    /\ ctxErr \in {NoErr, ErrCanceled}
    /\ paPc = "loop"
    /\ paJob = << >>
    /\ doCfg \in { << c >> : c \in DoConfigs }
    /\ delay = doCfg[1].Delay
    /\ doErr = NoErr /\ attempt = 0 /\ lastErr = NoErr
    /\ paResult = << >> /\ paRunErrs = << >> /\ waits = << >> /\ paCalls = << >>
    /\ paReports = << >> /\ paRet = << >>
    /\ ctxAt = IF ctxErr = NoErr THEN << >> ELSE << [ pc |-> "start", runs |-> 0 ] >>

\* retry.Do: lastErr = fn() for a unit of work that succeeds or fails
DoUnitOfWork ==
    /\ paPc = "fn"
    /\ \E e \in {NoErr, UnitErr(Len(paRunErrs) + 1)} :
         /\ paRunErrs' = Append(paRunErrs, e)
         /\ DoAfterFn(e)
    /\ UNCHANGED << ctxErr, auxVars, batchVars, paJob, doCfg, attempt, delay, waits, paResult,
                    paCalls, paReports, paRet, ctxAt >>

\* the context passed to retry.Do is cancelled while Do runs
DoCancel ==
    /\ ctxErr = NoErr
    /\ paPc # "ret"
    /\ ctxErr' = ErrCanceled
    /\ ctxAt' = << [ pc |-> paPc, runs |-> Len(paRunErrs) ] >>
    /\ UNCHANGED << auxVars, batchVars, paJob, doCfg, doErr, attempt, delay, lastErr, paResult,
                    paRunErrs, waits, paCalls, paReports, paRet, paPc >>

NextDo ==
    \/ DoLoopHead
    \/ DoUnitOfWork
    \/ DoBackoffCancelled
    \/ DoBackoffElapsed
    \/ DoCancel

SpecDo == InitDo /\ [][NextDo]_vars

\* ----------------------------------------------------- batch-mode properties
\* number of BatchResults sent for job j so far; the caller's reads are not part
\* of the program and are left out, so every result sent stays in the buffer
Delivered(j) ==
    Cardinality({ i \in 1..Len(results) : results[i].JobID = j })

AllDeliveredOnce == \A j \in JobIds : Delivered(j) = 1

\* jobs that hold a place inside the pipeline: admitted, result not yet sent
Inside == { j \in JobIds : wpc[j] \in {"run", "send"} }

\* the worker of job j has computed its BatchResult
Computed(j) == wpc[j] \in {"send", "release", "wgdone", "exit"}

\* C1: every batch of N jobs eventually has exactly one BatchResult per job on
\* the channel, none twice, and the channel is then closed, at any cancellation timing.
C1_ExactlyOneResultPerJob ==
    /\ [](\A j \in JobIds : Delivered(j) <= 1)
    /\ <>[](closed /\ AllDeliveredOnce)

C1_Witness ==
    /\ closed /\ Len(jobs) = 2 /\ AllDeliveredOnce
    /\ shortCircuited # {} /\ \E j \in JobIds : wpc[j] = "exit"

\* C2: at most W jobs are inside Pipeline.Run (admitted, result not yet sent).
C2_AtMostWInside == Cardinality(Inside) <= workers

C2_Witness == Cardinality(Inside) = workers /\ jobCh # << >> /\ dpc = "range"

\* C3: the channel is closed only after every job's result was sent and every
\* worker finished; nothing is sent at or after the close.
C3_ClosedOnlyAfterAll ==
    closed => /\ AllDeliveredOnce
              /\ \A j \in JobIds : wpc[j] \in {"none", "exit"}
              /\ dpc \in {"done", "none"} /\ wg = 0

C3_Witness == closed /\ \E j \in JobIds : wpc[j] = "exit"

\* a goroutine about to send on results finds room in the buffer
SendHasRoom ==
    /\ Len(results) <= ResultsCap
    /\ dpc = "sendcancel" => Len(results) < ResultsCap
    /\ \A j \in JobIds : wpc[j] = "send" => Len(results) < ResultsCap

\* C4: no send of a BatchResult ever blocks (the buffer never exceeds len(jobs)),
\* so the channel gets closed although the consumer never reads a result.
C4_SendNeverBlocks ==
    /\ []SendHasRoom
    /\ <>closed

C4_Witness == closed /\ Len(results) = ResultsCap /\ ResultsCap = 2

\* C5: with the context cancelled before Run admits any job, every BatchResult
\* carries the cancellation error and Execute is never invoked.
C5_PreCancelledNothingRuns ==
    ctxAtRun # NoErr =>
        /\ \A i \in 1..Len(results) : ErrorsAs(results[i].Err, "canceled")
        /\ \A j \in JobIds : CountCalls(calls[j], "Execute") = 0

\* C6: a job the dispatcher answered with the cancellation error is never run,
\* gets no worker and takes no semaphore slot.
C6_ShortCircuitedNeverRuns ==
    /\ \A j \in shortCircuited :
          runs[j] = 0 /\ calls[j] = << >> /\ wpc[j] = "none" /\ Delivered(j) <= 1
    /\ \A i \in 1..Len(results) : results[i].JobID \in shortCircuited =>
          results[i].Err = ErrCanceled /\ results[i].Result = << >>
    /\ semaphore = Cardinality({ j \in JobIds \ shortCircuited :
                                   wpc[j] \in {"run", "send", "release"} })

C6_Witness ==
    \E j, k \in JobIds : /\ j \in shortCircuited /\ Delivered(j) = 1
                         /\ runs[k] = 1 /\ closed

\* some job of the batch failed
Failed(j) == j \in shortCircuited \/ (Computed(j) /\ wres[j].Err # NoErr)

\* C7: a job's failure never changes a sibling's outcome and never closes the
\* channel early: each result is the job's own, and all are delivered.
C7_FailureIsolation ==
    /\ \A i \in 1..Len(results) :
          IF results[i].JobID \in shortCircuited
          THEN ctxErr # NoErr /\ results[i].Err = ctxErr
          ELSE /\ Computed(results[i].JobID)
               /\ results[i] = wres[results[i].JobID]
               /\ runs[results[i].JobID] = 1
    /\ \A j \in JobIds : wpc[j] = "send" =>
          \E env \in BatchEnvs :
              LET r == processJob(jobs[j], env)
              IN  wres[j] = [ JobID |-> jobs[j].ID, Result |-> r.result, Err |-> r.err ]
    /\ (closed /\ \E j \in JobIds : Failed(j)) => AllDeliveredOnce

C7_Witness ==
    /\ closed
    /\ \E j, k \in JobIds : /\ isValidationError(wres[j].Err)
                            /\ wres[k].Err = NoErr /\ wres[k].Result # << >>

\* the job's declared options have a non-positive bitrate
BadBitrate(j) == jobs[j].Options # << >> /\ jobs[j].Options[1].Bitrate <= 0

NoExecutorCall(cs) == CountCalls(cs, "Probe") = 0 /\ CountCalls(cs, "Execute") = 0

\* C8 (as stated): an admitted job with a non-positive bitrate always yields a
\* validation error without any executor call; the others appear exactly once.
C8_BadBitrateIsValidation ==
    /\ \A j \in JobIds : (BadBitrate(j) /\ Computed(j)) =>
          isValidationError(wres[j].Err) /\ NoExecutorCall(calls[j])
    /\ closed => AllDeliveredOnce

\* C8 (amended): the error is of kind validation whenever the storage existence
\* check returns without error, and a processing-failure of stage validate when
\* that check itself errors; in both cases there is no executor call.
C8_BadBitrateNoExecutor ==
    /\ \A j \in JobIds : BadBitrate(j) =>
          /\ wpc[j] = "run" =>
                \A env \in Envs :
                    LET r == processJob(jobs[j], env) IN
                    /\ env.exists # "err" => isValidationError(r.err)
                    /\ env.exists = "err" =>
                          /\ ~isValidationError(r.err)
                          /\ ErrorsAs(r.err, "processing") /\ r.err[2].stage = "validate"
                    /\ NoExecutorCall(r.calls)
          /\ Computed(j) =>
                /\ wres[j].Err # NoErr /\ wres[j].Result = << >>
                /\ \/ isValidationError(wres[j].Err)
                   \/ wres[j].Err = FmtWrap(NewProcessingError("validate", RawErr))
                /\ NoExecutorCall(calls[j])
    /\ closed => AllDeliveredOnce

C8_Witness ==
    /\ closed /\ Len(jobs) = 2
    /\ \E j, k \in JobIds : /\ BadBitrate(j) /\ isValidationError(wres[j].Err)
                            /\ CountCalls(calls[j], "Exists") = 1
                            /\ ~BadBitrate(k) /\ CountCalls(calls[k], "Execute") = 1


\* ------------------------------------------------- single-job properties
Last(seq) == seq[Len(seq)]

\* C9: when the pipeline run fails with a validation error, ProcessAudio returns
\* that validation error: no success, no nil result with a nil error.
C9_ValidationErrorReturned ==
    (paPc = "done" /\ paRunErrs # << >> /\ isValidationError(Last(paRunErrs))) =>
        /\ ~paRet[1].panic
        /\ isValidationError(paRet[1].err)

\* C10 (as stated): when Pipeline.Run fails with a validation error it was
\* executed exactly once, and no backoff wait took place.
C10_ValidationRunsOnce ==
    (\E i \in 1..Len(paRunErrs) : isValidationError(paRunErrs[i])) =>
        Len(paRunErrs) = 1 /\ waits = << >>

\* C10 (amended): a run that fails with a validation error is the last run of the
\* call and no backoff wait follows it; when it is the first run, Pipeline.Run
\* is executed exactly once and there is no wait at all, for every MaxRetries.
C10_ValidationNeverRetried ==
    \A i \in 1..Len(paRunErrs) : isValidationError(paRunErrs[i]) =>
        /\ i = Len(paRunErrs)
        /\ Len(waits) = i - 1
        /\ paPc \in {"ret", "done"}

C10_Witness ==
    /\ paPc = "done" /\ paJob[1].Options.MaxRetries = 3
    /\ Len(paRunErrs) = 1 /\ isValidationError(paRunErrs[1]) /\ waits = << >>

-----------------------------------------------------------------------------
\* Properties of retry.Do (SpecDo)

RECURSIVE Pow(_, _)
Pow(b, n) == IF n = 0 THEN 1 ELSE b * Pow(b, n - 1)

\* retry.Do has returned and its context was never cancelled
DoReturnedUncancelled == paPc = "ret" /\ ctxAt = << >>

\* C11: with MaxAttempts 0 or 1 and no cancellation, retry.Do has invoked the unit of
\* work exactly once when it returns, has waited never, and returns what that one
\* invocation returned.
C11_ZeroOrOneRunsOnce ==
    (DoReturnedUncancelled /\ doCfg[1].MaxAttempts \in {0, 1}) =>
        /\ Len(paRunErrs) = 1
        /\ waits = << >>
        /\ doErr = paRunErrs[1]

\* C12: a success is always the last invocation; and when, uncancelled, invocations
\* 1..k-1 failed and invocation k succeeded, Do returns nil after exactly k invocations
\* (k <= MaxAttempts) and k-1 waits, the i-th wait being Delay * Multiplier^(i-1)
\* whenever that product does not exceed MaxDelay.
C12_SucceedsOnAttemptK ==
    /\ \A i \in 1..(Len(paRunErrs) - 1) : paRunErrs[i] # NoErr
    /\ (DoReturnedUncancelled /\ paRunErrs # << >> /\ paRunErrs[Len(paRunErrs)] = NoErr) =>
          /\ Len(paRunErrs) <= doCfg[1].MaxAttempts
          /\ Len(waits) = Len(paRunErrs) - 1
          /\ \A i \in 1..Len(waits) :
                doCfg[1].Delay * Pow(doCfg[1].Multiplier, i - 1) <= doCfg[1].MaxDelay
                    => waits[i] = doCfg[1].Delay * Pow(doCfg[1].Multiplier, i - 1)
          /\ doErr = NoErr

\* two failures, then success on the third attempt, with waits of 1 then 2 time-units
C12_Witness ==
    /\ DoReturnedUncancelled
    /\ Len(paRunErrs) = 3 /\ paRunErrs[3] = NoErr
    /\ waits = << 1, 2 >>
    /\ doErr = NoErr

\* C13: every backoff wait retry.Do performs, the first one included, is at most
\* MaxDelay.
C13_EveryWaitCapped ==
    \A i \in 1..Len(waits) : waits[i] <= doCfg[1].MaxDelay

\* C15: while Do is in a backoff wait with the context cancelled, the return through
\* ctx.Done() is possible at once; and after a cancellation that arrived during a
\* backoff wait the unit of work is never invoked again and Do returns the context's
\* error.
C15_CancelDuringBackoff ==
    /\ (paPc = "backoff" /\ ctxErr # NoErr) => ENABLED DoBackoffCancelled
    /\ (ctxAt # << >> /\ ctxAt[1].pc = "backoff") =>
          /\ Len(paRunErrs) = ctxAt[1].runs
          /\ paPc \in {"backoff", "loop", "ret"}
          /\ (paPc = "ret" => doErr = ctxErr)

\* cancelled in the first backoff wait; Do has returned the context error and that
\* wait never completed
C15_Witness ==
    /\ ctxAt # << >> /\ ctxAt[1].pc = "backoff" /\ ctxAt[1].runs = 1
    /\ paPc = "ret"
    /\ doErr = ErrCanceled
    /\ waits = << >>

-----------------------------------------------------------------------------
\* Properties of ProcessAudio under retry and cancellation (SpecPA)

\* the i-th pipeline run failed with an execution or a processing failure
RetryableFailure(i) == paRunErrs[i] # NoErr /\ ~isValidationError(paRunErrs[i])

\* C14: when ProcessAudio has returned, uncancelled, with MaxRetries >= 1 and every
\* pipeline run failed with an execution or processing failure, the pipeline ran
\* exactly MaxRetries times, MaxRetries - 1 waits took place (none after the final
\* run), and the error returned is the one of the last run.
C14_BudgetExhausted ==
    ( /\ paPc = "done" /\ ctxAt = << >>
      /\ paJob[1].Options.MaxRetries >= 1
      /\ \A i \in 1..Len(paRunErrs) : RetryableFailure(i) ) =>
        /\ Len(paRunErrs) = paJob[1].Options.MaxRetries
        /\ Len(waits) = paJob[1].Options.MaxRetries - 1
        /\ ~paRet[1].panic
        /\ paRet[1].result = << >>
        /\ paRet[1].err = paRunErrs[Len(paRunErrs)]

\* three failed runs, the last with another error than the first; the last is returned
C14_Witness ==
    /\ paPc = "done" /\ ctxAt = << >>
    /\ paJob[1].Options.MaxRetries = 3
    /\ Len(paRunErrs) = 3 /\ \A i \in 1..3 : RetryableFailure(i)
    /\ paRunErrs[1] # paRunErrs[3]
    /\ waits = << 1, 2 >>
    /\ paRet[1].err = paRunErrs[3]

\* the context was cancelled or timed out at one of the points of the call: before the
\* first attempt, at the head of an attempt, in a backoff wait, or while a pipeline run
\* was under way whose executor invocation then failed
CancelledDuringCall ==
    /\ ctxAt # << >>
    /\ \/ ctxAt[1].pc \in {"start", "loop", "backoff"}
       \/ /\ ctxAt[1].pc = "fn"
          /\ Len(paRunErrs) > ctxAt[1].runs
          /\ ErrorsAs(paRunErrs[ctxAt[1].runs + 1], "ffmpeg")

\* C16: when ProcessAudio (MaxRetries >= 1) has returned after a cancellation or
\* timeout that arrived during the call, no pipeline run started after the
\* cancellation and the error returned is the context's cancellation/timeout error.
C16_CancellationIsTerminal ==
    (paPc = "done" /\ paJob[1].Options.MaxRetries >= 1 /\ CancelledDuringCall) =>
        /\ Len(paRunErrs) <= ctxAt[1].runs + (IF ctxAt[1].pc = "fn" THEN 1 ELSE 0)
        /\ ~paRet[1].panic
        /\ paRet[1].err = ctxErr

\* C17: the progress percentages emitted for the job of a ProcessAudio call, over all
\* its attempts, never decrease and lie within 0..100.
C17_ProgressMonotone ==
    /\ \A i \in 1..Len(paReports) : paReports[i] \in 0..100
    /\ \A i \in 1..(Len(paReports) - 1) : paReports[i] <= paReports[i + 1]

-----------------------------------------------------------------------------
\* Properties of one Pipeline.Run, as ProcessAudio runs it (SpecPA)

\* the outcomes of the collaborators under which validation, the input probe and the
\* transformation of the job succeed
StagesSucceed(job, env) ==
    /\ validateInput(job, env).err = NoErr
    /\ env.probeIn = "ok"
    /\ runFFmpeg(job, env).err = NoErr

\* C18: a run in which validation, input probe and transformation succeed and the
\* output probe fails returns a result with the probed InputMeta and zero-value
\* OutputMeta and no error; under ProcessAudio that run is the last one, no wait
\* follows it, and the caller receives that result with a nil error.
C18_OutputProbeFailureIsSuccess ==
    /\ paPc = "fn" =>
          \A env \in Envs : (StagesSucceed(paJob[1], env) /\ env.probeOut # "ok") =>
              /\ PipelineRun(paJob[1], env).err = NoErr
              /\ PipelineRun(paJob[1], env).result =
                    << [ InputMeta |-> ProbedMeta, OutputMeta |-> ZeroMeta ] >>
    /\ (paResult # << >> /\ paResult[1].OutputMeta = ZeroMeta) =>
          /\ paRunErrs[Len(paRunErrs)] = NoErr
          /\ paPc \in {"ret", "done"}
          /\ doErr = NoErr
          /\ Len(waits) = Len(paRunErrs) - 1
          /\ paPc = "done" =>
                paRet[1] = [ result |-> paResult, err |-> NoErr, panic |-> FALSE ]

\* the first run succeeded with placeholder output metadata and was returned as is
C18_Witness ==
    /\ paPc = "done" /\ paJob[1].Options.MaxRetries = 3
    /\ Len(paRunErrs) = 1 /\ waits = << >>
    /\ paRet[1].err = NoErr
    /\ paRet[1].result = << [ InputMeta |-> ProbedMeta, OutputMeta |-> ZeroMeta ] >>

\* the fixed order of the collaborator calls of one run
StageOrder == << "Exists", "Probe", "Execute", "Probe" >>

IsPrefix(a, b) == Len(a) <= Len(b) /\ a = SubSeq(b, 1, Len(a))

\* the error chain has a ProcessingError of the given stage
ProcessingStage(err, stage) ==
    \E i \in 1..Len(err) : err[i].t = "processing" /\ err[i].stage = stage

\* what one run may do for each outcome of the collaborators
RunOrdered(job, env) ==
    LET r == PipelineRun(job, env)
    IN  /\ IsPrefix(r.calls, StageOrder)
        /\ CountCalls(r.calls, "Execute") <= 1
        /\ CountCalls(r.calls, "Execute") = 1 =>
              validateInput(job, env).err = NoErr /\ env.probeIn = "ok"
        /\ Len(r.calls) = 4 => env.execute = "ok"
        /\ validateInput(job, env).err # NoErr => Len(r.calls) <= 1
        /\ (validateInput(job, env).err = NoErr /\ env.probeIn # "ok") =>
              r.calls = SubSeq(StageOrder, 1, 2)
        /\ (StagesSucceed(job, env) \/ r.err = NoErr) <=> Len(r.calls) = 4

\* what one step of running the pipeline adds to the calls recorded so far
RunStepOrdered ==
    (paPc = "fn" /\ paPc' # "fn") =>
        LET new == SubSeq(paCalls', Len(paCalls) + 1, Len(paCalls'))
            err == paRunErrs'[Len(paRunErrs')]
        IN  /\ IsPrefix(new, StageOrder)
            /\ err = NoErr <=> Len(new) = 4
            /\ (isValidationError(err) \/ ProcessingStage(err, "validate")) => Len(new) <= 1
            /\ (ProcessingStage(err, "probe") \/ ProcessingStage(err, "encode")) =>
                  new = SubSeq(StageOrder, 1, 2)
            /\ (err # NoErr /\ err[1].t = "ffmpeg") => new = SubSeq(StageOrder, 1, 3)

\* C19: the collaborator calls of one run are a prefix of Exists, Probe, Execute,
\* Probe: Execute is called at most once and only when validation and the input probe
\* succeeded, the output probe only when Execute succeeded, and a run that fails at a
\* stage makes none of the calls of the later stages.
C19_FixedStageOrder ==
    /\ [](paPc = "fn" => \A env \in Envs : RunOrdered(paJob[1], env))
    /\ [][RunStepOrdered]_vars

\* a failed execution (three calls) followed by a complete second run (four calls)
C19_Witness ==
    /\ Len(paRunErrs) = 2 /\ paRunErrs[1] = NewFFmpegError(RawErr) /\ paRunErrs[2] = NoErr
    /\ paCalls = SubSeq(StageOrder, 1, 3) \o StageOrder

\* C20: with both paths given, an existence check that itself errors makes the run fail
\* with a ProcessingError of stage validate that is no validation error and that the
\* retried closure passes on, so that with attempts left a backoff and another run
\* follow; an existence check that answers "no" makes the run fail with a validation
\* error.
C20_StorageErrorIsProcessing ==
    /\ (paPc = "fn" /\ paJob[1].InputPath # "" /\ paJob[1].OutputPath # "") =>
          \A env \in Envs :
              LET err == PipelineRun(paJob[1], env).err
              IN  /\ env.exists = "err" =>
                        /\ ProcessingStage(err, "validate")
                        /\ ~isValidationError(err)
                        /\ fnReturn(err) = err
                  /\ env.exists = "false" => isValidationError(err)
    /\ ( /\ paRunErrs # << >>
         /\ ProcessingStage(paRunErrs[Len(paRunErrs)], "validate")
         /\ Len(paRunErrs) < paJob[1].Options.MaxRetries
         /\ ctxAt = << >> ) =>
              paPc \in {"backoff", "loop", "fn"}

\* a failed existence check on the first run was followed by a wait and a second run
C20_Witness ==
    /\ Len(paRunErrs) = 2
    /\ ProcessingStage(paRunErrs[1], "validate") /\ ~isValidationError(paRunErrs[1])
    /\ waits = << 1 >>

-----------------------------------------------------------------------------
\* Batch jobs that point to one ProcessingOptions object of the caller

\* two BatchJobs submitted with the same Options pointer
OptJobs == {1, 2}

\* the values the caller gives to the fields of the object
OptionValues ==
    { [ DefaultProcessingOptions EXCEPT !.Codec = cd, !.Bitrate = br ] :
        cd \in {CodecOpus, "flac"}, br \in {DefaultBitrate, 0} }

NothingSeen == [ built |-> << >>, validated |-> << >>, command |-> << >> ]

InitOpts ==
    /\ ctxErr = NoErr
    /\ BatchIdle /\ PaIdle /\ RepIdle /\ ArgIdle /\ SvcIdle /\ ProbeIdle /\ MultiIdle
    /\ optHeap \in { << o >> : o \in OptionValues }
    /\ optPc = [ j \in OptJobs |-> "submitted" ]
    /\ optSeen = [ j \in OptJobs |-> NothingSeen ]
    /\ optWrites = 0

\* processJob: opts := job.Options copies the pointer into the pipeline Job
OptProcessJob(j) ==
    /\ optPc[j] = "submitted"
    /\ optPc' = [ optPc EXCEPT ![j] = "built" ]
    /\ optSeen' = [ optSeen EXCEPT ![j].built = optHeap ]
    /\ UNCHANGED << optOthers, optHeap, optWrites >>

\* validateInput: opts := job.Options, then the Bitrate and SampleRate checks
OptValidate(j) ==
    /\ optPc[j] = "built"
    /\ optSeen' = [ optSeen EXCEPT ![j].validated = optHeap ]
    /\ optPc' = [ optPc EXCEPT ![j] =
                    IF optHeap[1].Bitrate <= 0 \/ optHeap[1].SampleRate <= 0
                    THEN "failed" ELSE "validated" ]
    /\ UNCHANGED << optOthers, optHeap, optWrites >>

\* runFFmpeg: opts := job.Options, then the command is built from its fields
OptBuildCommand(j) ==
    /\ optPc[j] = "validated"
    /\ optSeen' = [ optSeen EXCEPT ![j].command = optHeap ]
    /\ optPc' = [ optPc EXCEPT ![j] =
                    IF buildCodecArgsErr(optHeap[1]) # NoErr THEN "failed" ELSE "executing" ]
    /\ UNCHANGED << optOthers, optHeap, optWrites >>

\* the caller assigns to a field of the object it submitted
CallerWritesOptions ==
    /\ optWrites < MaxWrites
    /\ \E o \in OptionValues :
         /\ \/ o.Codec = optHeap[1].Codec /\ o.Bitrate # optHeap[1].Bitrate
            \/ o.Codec # optHeap[1].Codec /\ o.Bitrate = optHeap[1].Bitrate
         /\ optHeap' = << o >>
    /\ optWrites' = optWrites + 1
    /\ UNCHANGED << optOthers, optPc, optSeen >>

NextOpts ==
    \/ \E j \in OptJobs : OptProcessJob(j)
    \/ \E j \in OptJobs : OptValidate(j)
    \/ \E j \in OptJobs : OptBuildCommand(j)
    \/ CallerWritesOptions

SpecOpts == InitOpts /\ [][NextOpts]_vars

\* C21: what validation and command construction of a job read is what the options
\* object held when the job was built, whatever the caller writes meanwhile.
C21_OptionsSnapshot ==
    \A j \in OptJobs :
        /\ optPc[j] # "submitted" =>
              /\ optSeen[j].validated \in {<< >>, optSeen[j].built}
              /\ optSeen[j].command \in {<< >>, optSeen[j].built}

-----------------------------------------------------------------------------
\* Further properties of batch mode (Spec)

\* C22: in a batch, Pipeline.Run is called at most once for each job and the executor's
\* Execute at most once, also when the run failed and the job's options carry a retry
\* budget; a worker that has its result has run the pipeline exactly once.
C22_BatchNeverRetries ==
    \A j \in JobIds :
        /\ runs[j] <= 1
        /\ CountCalls(calls[j], "Execute") <= 1
        /\ wpc[j] \in {"send", "release", "wgdone", "exit"} => runs[j] = 1

\* a job with the default retry budget of 3 whose Execute failed was run once and its
\* failure delivered
C22_Witness ==
    /\ closed
    /\ \E j \in JobIds :
         /\ jobs[j].Options = << >> /\ DefaultProcessingOptions.MaxRetries = 3
         /\ runs[j] = 1 /\ calls[j] = SubSeq(StageOrder, 1, 3)
         /\ \E i \in 1..Len(results) : results[i].JobID = jobs[j].ID /\ results[i].Err # NoErr

-----------------------------------------------------------------------------
\* progress.ChannelReporter: jobs reporting into one subscriber channel

\* two jobs report through the same reporter
RepJobs == {1, 2}

\* the percents one pipeline run of a valid job reports, for each outcome of the run
ReportPlans ==
    { PipelineRun([ ID |-> 1, InputPath |-> "in.wav", OutputPath |-> "out.opus",
                    Options |-> DefaultProcessingOptions ], env).reports : env \in Envs }

InitRep ==
    /\ ctxErr = NoErr
    /\ BatchIdle /\ PaIdle /\ OptIdle /\ ArgIdle /\ SvcIdle /\ ProbeIdle /\ MultiIdle
    /\ repNil \in BOOLEAN
    /\ repCap \in 0..MaxRepCap
    /\ repNil => repCap = 0
    /\ repCh = << >>
    /\ repPlan \in [ RepJobs -> ReportPlans ]
    /\ repPos = [ j \in RepJobs |-> 0 ]
    /\ repReceived = [ j \in RepJobs |-> << >> ]
    /\ subWaiting = FALSE

\* the progress.Update job j reports next
NextUpdate(j) == [ JobID |-> j, Percent |-> repPlan[j][repPos[j] + 1] ]

\* a Report that waits for room in the channel
ReportBlocking(j) ==
    /\ repPos[j] < Len(repPlan[j])
    /\ ~repNil /\ Len(repCh) < repCap
    /\ repPos' = [ repPos EXCEPT ![j] = @ + 1 ]
    /\ repCh' = Append(repCh, NextUpdate(j))
    /\ UNCHANGED << repOthers, repNil, repCap, repPlan, repReceived, subWaiting >>

\* a Report that puts the newest update first
ReportNewestFirst(j) ==
    /\ repPos[j] < Len(repPlan[j])
    /\ repPos' = [ repPos EXCEPT ![j] = @ + 1 ]
    /\ IF ~repNil /\ Len(repCh) < repCap
       THEN repCh' = << NextUpdate(j) >> \o repCh /\ UNCHANGED << repReceived, subWaiting >>
       ELSE IF ~repNil /\ repCap = 0 /\ subWaiting
       THEN /\ repReceived' = [ repReceived EXCEPT ![j] = Append(@, NextUpdate(j).Percent) ]
            /\ subWaiting' = FALSE
            /\ UNCHANGED repCh
       ELSE UNCHANGED << repCh, repReceived, subWaiting >>
    /\ UNCHANGED << repOthers, repNil, repCap, repPlan >>

\* Job.report -> ChannelReporter.Report: select { case r.ch <- update: default: }
\* the send is taken when the buffer has room or a receiver is waiting; otherwise
\* (full, or nil channel) the default case drops the update
Report(j) ==
    /\ repPos[j] < Len(repPlan[j])
    /\ repPos' = [ repPos EXCEPT ![j] = @ + 1 ]
    /\ IF ~repNil /\ Len(repCh) < repCap
       THEN repCh' = Append(repCh, NextUpdate(j)) /\ UNCHANGED << repReceived, subWaiting >>
       ELSE IF ~repNil /\ repCap = 0 /\ subWaiting
       THEN /\ repReceived' = [ repReceived EXCEPT ![j] = Append(@, NextUpdate(j).Percent) ]
            /\ subWaiting' = FALSE
            /\ UNCHANGED repCh
       ELSE UNCHANGED << repCh, repReceived, subWaiting >>
    /\ UNCHANGED << repOthers, repNil, repCap, repPlan >>

\* the subscriber takes the oldest update out of the buffer
SubscriberReceive ==
    /\ repCh # << >>
    /\ repReceived' = [ repReceived EXCEPT ![repCh[1].JobID] = Append(@, repCh[1].Percent) ]
    /\ repCh' = Tail(repCh)
    /\ UNCHANGED << repOthers, repNil, repCap, repPlan, repPos, subWaiting >>

\* the subscriber blocks in a receive on an unbuffered channel
SubscriberWaits ==
    /\ ~repNil /\ repCap = 0 /\ ~subWaiting
    /\ subWaiting' = TRUE
    /\ UNCHANGED << repOthers, repNil, repCap, repCh, repPlan, repPos, repReceived >>

NextRep ==
    \/ \E j \in RepJobs : Report(j)
    \/ SubscriberReceive
    \/ SubscriberWaits

SpecRep == InitRep /\ [][NextRep]_vars

\* the percents job j has reported so far
Emitted(j) == SubSeq(repPlan[j], 1, repPos[j])

\* the percents of job j in the channel buffer, oldest first
RECURSIVE Buffered(_, _)
Buffered(ch, j) ==
    IF ch = << >> THEN << >>
    ELSE (IF ch[1].JobID = j THEN << ch[1].Percent >> ELSE << >>) \o Buffered(Tail(ch), j)

\* a is b with some elements left out
RECURSIVE IsSubseq(_, _)
IsSubseq(a, b) ==
    IF a = << >> THEN TRUE
    ELSE IF b = << >> THEN FALSE
    ELSE IF a[1] = b[1] THEN IsSubseq(Tail(a), Tail(b))
    ELSE IsSubseq(a, Tail(b))

\* C23: a job that has an update to report can always complete Report in one step,
\* whether the channel is nil, full, or nobody receives; the update is then either
\* in the channel, handed to the subscriber, or dropped.
C23_ReportNeverBlocks ==
    \A j \in RepJobs : repPos[j] < Len(repPlan[j]) => ENABLED Report(j)

\* both jobs completed all four reports although the subscriber never received and the
\* channel had room for one update only
C23_Witness ==
    /\ ~repNil /\ repCap = 1 /\ Len(repCh) = 1
    /\ \A j \in RepJobs : Len(repPlan[j]) = 4 /\ repPos[j] = 4 /\ repReceived[j] = << >>

\* C24: for each job, what the subscriber has received followed by what is still
\* buffered for it is a subsequence of what the job reported, in the order reported.
C24_ReceivedInEmissionOrder ==
    \A j \in RepJobs : IsSubseq(repReceived[j] \o Buffered(repCh, j), Emitted(j))

\* the updates of the two jobs were interleaved, some were dropped, and each job's
\* survivors arrived in order
C24_Witness ==
    /\ repReceived[1] = << 5, 90 >> /\ repReceived[2] = << 20, 100 >>
    /\ repPos[1] = 4 /\ repPos[2] = 4

-----------------------------------------------------------------------------
\* Properties of command construction, as ProcessAudio runs it (SpecPA)

\* ProcessAudio was called with a codec outside opus, aac, mp3, both paths given and a
\* positive bitrate and sample rate
UnsupportedCodecJob ==
    /\ paJob # << >>
    /\ paJob[1].Options.Codec \notin {CodecOpus, CodecAAC, CodecMP3}
    /\ paJob[1].InputPath # "" /\ paJob[1].OutputPath # ""
    /\ paJob[1].Options.Bitrate > 0 /\ paJob[1].Options.SampleRate > 0

\* C25 (as stated): every run of such a job fails with a processing-failure and
\* Execute is never invoked.
C25_UnsupportedCodecIsProcessing ==
    UnsupportedCodecJob =>
        /\ CountCalls(paCalls, "Execute") = 0
        /\ \A i \in 1..Len(paRunErrs) :
              paRunErrs[i] # NoErr /\ paRunErrs[i][1].t = "processing"

\* C25 (amended): every run of such a job fails and Execute is never invoked, on any
\* attempt; the failure is a processing-failure whenever the existence check of the
\* input does not answer "no" (stage encode when the input probe succeeded), and a
\* validation error for the input path when it does.
C25_UnsupportedCodecNeverExecutes ==
    UnsupportedCodecJob =>
        /\ CountCalls(paCalls, "Execute") = 0
        /\ \A i \in 1..Len(paRunErrs) :
              /\ paRunErrs[i] # NoErr
              /\ \/ paRunErrs[i][1].t = "processing"
                 \/ paRunErrs[i] = NewValidationError("inputPath")
        /\ paPc = "fn" =>
              \A env \in Envs :
                  LET r == PipelineRun(paJob[1], env)
                  IN  /\ env.exists # "false" => r.err # NoErr /\ r.err[1].t = "processing"
                      /\ (env.exists = "true" /\ env.probeIn = "ok") =>
                            r.err = NewProcessingError("encode", RawErr)
                      /\ env.exists = "false" => r.err = NewValidationError("inputPath")

\* three attempts were made for the unsupported codec; each reached command
\* construction and failed there, without a call of Execute
C25_Witness ==
    /\ UnsupportedCodecJob /\ paPc = "done"
    /\ Len(paRunErrs) = 3
    /\ \A i \in 1..3 : paRunErrs[i] = NewProcessingError("encode", RawErr)
    /\ paCalls = SubSeq(StageOrder, 1, 2) \o SubSeq(StageOrder, 1, 2) \o SubSeq(StageOrder, 1, 2)

-----------------------------------------------------------------------------
\* Command construction on its own: runFFmpeg and buildCodecArgs for every option set

\* the option sets commands are built for
ArgOptions ==
    { [ DefaultProcessingOptions EXCEPT
          !.Codec = cd, !.BitrateMode = bm, !.Bitrate = br,
          !.HighpassEnabled = hp, !.LowpassEnabled = lp, !.NormalizationEnabled = nm ] :
        cd \in {CodecOpus, CodecAAC, CodecMP3, "flac"},
        bm \in {BitrateModeVBR, BitrateCBR},
        br \in {DefaultBitrate, 64500},
        hp \in BOOLEAN, lp \in BOOLEAN, nm \in BOOLEAN }

InitArgs ==
    /\ ctxErr = NoErr
    /\ BatchIdle /\ PaIdle /\ OptIdle /\ RepIdle /\ SvcIdle /\ ProbeIdle /\ MultiIdle
    /\ argJob \in { << [ ID |-> 1, InputPath |-> "in.wav", OutputPath |-> "out.opus",
                          Options |-> o ] >> : o \in ArgOptions }
    /\ codecRes = << >>
    /\ argv = << >>

\* buildCodecArgs(opts) is called, a first and a second time
CallBuildCodecArgs ==
    /\ Len(codecRes) < 2
    /\ codecRes' = Append(codecRes, buildCodecArgs(argJob[1].Options))
    /\ UNCHANGED << argOthers, argJob, argv >>

\* runFFmpeg builds the command; with a supported codec it reaches Execute(ctx, args)
CallRunFFmpeg ==
    /\ argv = << >>
    /\ buildCodecArgs(argJob[1].Options).err = NoErr
    /\ argv' = << runFFmpegArgs(argJob[1]) >>
    /\ UNCHANGED << argOthers, argJob, codecRes >>

NextArgs == CallBuildCodecArgs \/ CallRunFFmpeg

SpecArgs == InitArgs /\ [][NextArgs]_vars

\* position of the first occurrence of an argument in an argument list, 0 if none
IndexOf(args, a) ==
    IF \E i \in 1..Len(args) : args[i] = a
    THEN CHOOSE i \in 1..Len(args) : args[i] = a /\ \A k \in 1..(i - 1) : args[k] # a
    ELSE 0

\* the three filters in their fixed order, with the toggle that enables each
FilterOrder(opts) ==
    << [ on |-> opts.HighpassEnabled, text |-> "highpass=f=" \o ToString(opts.HighpassFreq) ],
       [ on |-> opts.LowpassEnabled,  text |-> "lowpass=f=" \o ToString(opts.LowpassFreq) ],
       [ on |-> opts.NormalizationEnabled, text |-> "loudnorm=" \o opts.LoudnormParams ] >>

IsEnabled(f) == f.on

\* the enabled filters joined with commas, in the fixed order
ExpectedFilterArg(opts) ==
    LET enabled == SelectSeq(FilterOrder(opts), IsEnabled)
    IN  Join([ i \in 1..Len(enabled) |-> enabled[i].text ], ",")

\* C26: the command handed to Execute has, when a filter is enabled, exactly one -af
\* argument followed by the enabled filters, each once, in the order highpass, lowpass,
\* loudnorm, joined by commas; and when no filter is enabled it has no -af argument.
C26_FilterChainOrder ==
    argv # << >> =>
        LET args == argv[1]
            opts == argJob[1].Options
            none == ~opts.HighpassEnabled /\ ~opts.LowpassEnabled /\ ~opts.NormalizationEnabled
        IN  /\ none <=> IndexOf(args, "-af") = 0
            /\ ~none =>
                  /\ Cardinality({ i \in 1..Len(args) : args[i] = "-af" }) = 1
                  /\ args[IndexOf(args, "-af") + 1] = ExpectedFilterArg(opts)

\* highpass and loudnorm enabled, lowpass not
C26_Witness ==
    /\ argv # << >>
    /\ argv[1][4] = "-af"
    /\ argv[1][5] = "highpass=f=80,loudnorm=I=-23.0:TP=-1.0:LRA=7.0"

\* codec, bitrate mode and bitrate of two option sets agree
SameCodecFields(o1, o2) ==
    o1.Codec = o2.Codec /\ o1.BitrateMode = o2.BitrateMode /\ o1.Bitrate = o2.Bitrate

\* what every call of buildCodecArgs made so far returned
CodecResultsAgree ==
    \A i \in 1..Len(codecRes) :
        /\ codecRes[i] = codecRes[1]
        /\ \A o \in ArgOptions : SameCodecFields(o, argJob[1].Options) =>
              buildCodecArgs(o) = codecRes[i]
        /\ (argJob[1].Options.Codec = CodecAAC
             /\ argJob[1].Options.BitrateMode = BitrateModeVBR) =>
              /\ IndexOf(codecRes[i].args, "-b:a") = 0
              /\ IndexOf(codecRes[i].args, "-q:a") > 0
              /\ codecRes[i].args[IndexOf(codecRes[i].args, "-q:a") + 1] = "2"

-----------------------------------------------------------------------------
\* Properties of the service configuration (SpecPA)

\* C28: a ProcessAudio call made without a per-call retry option passes the retry
\* configuration stored at construction to retry.Do, and runs the pipeline at most
\* that configuration's MaxAttempts times.
C28_ServiceRetryConfigGoverns ==
    (doCfg # << >> /\ paJob[1].Options.MaxRetries = DefaultProcessingOptions.MaxRetries) =>
        /\ doCfg = svcRetryCfg
        /\ Len(paRunErrs) <= svcRetryCfg[1].MaxAttempts

-----------------------------------------------------------------------------
\* Properties of ProcessBatch with no jobs (Spec)

\* C29: with zero jobs submitted, no result is ever in the channel and neither the
\* pipeline nor a collaborator is invoked; and the step in which ProcessBatch returns
\* for zero jobs leaves the channel closed and starts no goroutine.
C29_EmptyBatchClosed ==
    /\ [](Len(jobs) = 0 =>
            /\ results = << >>
            /\ runs = << >> /\ calls = << >> /\ wpc = << >>
            /\ dpc = "none" => closed)
    /\ [][(dpc = "idle" /\ dpc' = "none") =>
            (closed' /\ results' = << >> /\ jobCh' = << >> /\ wg' = 0)]_vars

\* ProcessBatch has returned for an empty batch: closed channel, nothing in it,
\* no dispatcher
C29_Witness ==
    /\ Len(jobs) = 0 /\ dpc = "none"
    /\ closed /\ results = << >>

-----------------------------------------------------------------------------
\* Probing an input file: AudioService.ProbeAudio and the probe inside Pipeline.Run

\* AudioService.ProbeAudio: the existence check, then pipeline.ProbeFile, whose result
\* is returned as it is
ProbeAudio(inputPath, env) ==
    IF env.exists = "err"
    THEN [ meta |-> << >>, err |-> NewProcessingError("probe", RawErr) ]
    ELSE IF env.exists = "false"
    THEN [ meta |-> << >>, err |-> NewValidationError("inputPath") ]
    ELSE probeFile(env.probeIn)

\* the job Pipeline.Run is given for the probed file
ProbedFileJob ==
    [ ID |-> 1, InputPath |-> "in.wav", OutputPath |-> "out.opus",
      Options |-> DefaultProcessingOptions ]

InitProbe ==
    /\ ctxErr = NoErr
    /\ BatchIdle /\ PaIdle /\ OptIdle /\ RepIdle /\ ArgIdle /\ SvcIdle /\ MultiIdle
    /\ probeEnv \in { << env >> : env \in Envs }
    /\ probeRet = << >>
    /\ runRet = << >>

\* the caller asks the service for the metadata of the file
CallProbeAudio ==
    /\ probeRet = << >>
    /\ probeRet' = << ProbeAudio(ProbedFileJob.InputPath, probeEnv[1]) >>
    /\ UNCHANGED << probeOthers, probeEnv, runRet >>

\* the pipeline is run on the file
CallPipelineRun ==
    /\ runRet = << >>
    /\ runRet' = << [ result |-> PipelineRun(ProbedFileJob, probeEnv[1]).result,
                      err |-> PipelineRun(ProbedFileJob, probeEnv[1]).err ] >>
    /\ UNCHANGED << probeOthers, probeEnv, probeRet >>

NextProbe == CallProbeAudio \/ CallPipelineRun

SpecProbe == InitProbe /\ [][NextProbe]_vars

\* the file exists and the probe collaborator answers with a malformed response
MalformedInputProbe == probeEnv[1].exists = "true" /\ probeEnv[1].probeIn = "malformed"

\* C30: when the probe of the input file gets a malformed response, Pipeline.Run fails
\* with an error of kind processing-failure, and so does ProbeAudio.
C30_MalformedProbeIsProcessing ==
    MalformedInputProbe =>
        /\ runRet # << >> => KindOf(runRet[1].err) = "processing"
        /\ probeRet # << >> => KindOf(probeRet[1].err) = "processing"

-----------------------------------------------------------------------------
\* Classification of the error of a BatchResult

\* the concrete error types a caller can ask errors.As for
ErrorTypes == {"validation", "processing", "ffmpeg"}

\* the delivered results of jobs that ran the pipeline
RanResults == { i \in 1..Len(results) : results[i].JobID \notin shortCircuited }

\* the step puts a BatchResult on the results channel
DeliverStep == Len(results') = Len(results) + 1

\* the BatchResult the step delivered
DeliveredResult == results'[Len(results')]

\* the delivered result of a job that ran the pipeline classifies as that run's error does
DeliveredKeepsKind ==
    (DeliverStep /\ DeliveredResult.JobID \notin shortCircuited) =>
        /\ KindOf(DeliveredResult.Err) = KindOf(pipelineErr[DeliveredResult.JobID])
        /\ \A t \in ErrorTypes :
              ErrorsAs(DeliveredResult.Err, t) = ErrorsAs(pipelineErr[DeliveredResult.JobID], t)

\* C31: the error of a BatchResult of a job that ran the pipeline classifies to the same
\* kind as the error Pipeline.Run returned for that job, and errors.As finds the same
\* typed errors in both: the worker pool's wrapping hides nothing.
C31_WrappingKeepsKind == [][DeliveredKeepsKind]_vars

\* one batch delivered a validation failure and an execution failure, both wrapped
C31_Witness ==
    /\ closed
    /\ \E i, k \in RanResults :
         /\ results[i].Err # pipelineErr[results[i].JobID]
         /\ KindOf(results[i].Err) = "validation"
         /\ KindOf(results[k].Err) = "ffmpeg"

-----------------------------------------------------------------------------
\* A batch job's progress updates and its options

\* the error is a validation failure of one of the given fields
ValidationOf(err, fields) ==
    \E i \in 1..Len(err) : err[i].t = "validation" /\ err[i].field \in fields

\* what a step that emits updates for job j, or runs its pipeline, leaves behind
OwnIdAndDefaultOptions ==
    \A j \in JobIds :
        /\ reported'[j] # reported[j] =>
              \A i \in 1..Len(reported'[j]) : reported'[j][i].JobID = jobs[j].ID
        /\ (wpc[j] = "run" /\ wpc'[j] # "run" /\ jobs[j].Options = << >>) =>
              /\ ~ValidationOf(pipelineErr'[j], {"bitrate", "sampleRate"})
              /\ ~(pipelineErr'[j] # NoErr /\ pipelineErr'[j][1].t = "processing"
                                           /\ pipelineErr'[j][1].stage = "encode")

\* C33: every progress update emitted while a batch job runs carries that job's ID, and
\* a batch job submitted without options runs under the default options: it is never
\* rejected for its bitrate or sample rate, nor for its codec.
C33_OwnIdAndDefaultOptions == [][OwnIdAndDefaultOptions]_vars

\* the second job of a batch, submitted without options, ran to the end and emitted
\* all four updates, while the first job emitted some too
C33_Witness ==
    /\ Len(jobs) = 2
    /\ jobs[2].Options = << >> /\ Computed(2)
    /\ wres[2].Result # << >>
    /\ Len(reported[2]) = 4 /\ reported[2][4] = [ JobID |-> 2, Percent |-> 100 ]
    /\ Len(reported[1]) > 0

-----------------------------------------------------------------------------
\* Shape of a delivered BatchResult

\* exactly one of Result and Err is set
OneOfResultAndErr(r) == (r.Result # << >>) <=> (r.Err = NoErr)

\* C34: every BatchResult delivered by WorkerPool.Run has exactly one of Result and Err
\* set, whether a pipeline run produced it or the dispatcher's cancellation branch did.
C34_ResultXorErr == [][DeliverStep => OneOfResultAndErr(DeliveredResult)]_vars

\* a closed batch that delivered a cancellation result, and a result of a pipeline run
\* that succeeded
C34_Witness ==
    /\ closed
    /\ \E i \in 1..Len(results) :
         results[i].JobID \in shortCircuited /\ results[i].Err = ErrCanceled
    /\ \E i \in RanResults : results[i].Result # << >>

-----------------------------------------------------------------------------
\* Accounting of the semaphore slots

\* admitted jobs whose worker has not yet released its slot
HoldingSlot == { j \in JobIds : wpc[j] \in {"run", "send", "release"} }

\* the worker of job j has released its slot
Released(j) == wpc[j] \in {"wgdone", "exit"}

SlotsAccounted ==
    /\ semaphore = Cardinality(HoldingSlot)
    /\ closed => semaphore = 0

\* a step that frees a slot frees one, for a worker whose result is already on the
\* channel; a worker that has released never holds or releases again
ReleaseStep ==
    /\ semaphore' < semaphore =>
          /\ semaphore' = semaphore - 1
          /\ \E j \in JobIds :
                /\ wpc[j] = "release" /\ wpc'[j] = "wgdone"
                /\ Delivered(j) = 1
                /\ \A k \in JobIds \ {j} : wpc'[k] = wpc[k]
    /\ \A j \in JobIds : Released(j) => Released(j)'

\* C35: the number of semaphore slots held equals the number of admitted jobs whose
\* worker has not yet released; each admitted job releases its slot exactly once, after
\* its BatchResult was sent, and all slots are free when the channel is closed.
C35_SlotsNeverLeak == []SlotsAccounted /\ [][ReleaseStep]_vars

\* with two slots taken, one worker has released and the other, its result sent, has not
C35_Witness ==
    /\ workers = 2 /\ semaphore = 1
    /\ \E j, k \in JobIds : wpc[j] = "wgdone" /\ wpc[k] = "release" /\ Delivered(k) = 1

-----------------------------------------------------------------------------
\* retry.Do under a context cancelled before an attempt

\* the context was cancelled before retry.Do was called, or while Do stood before an
\* attempt: at the head of the loop or in the backoff wait
CancelledBeforeAttempt ==
    ctxAt # << >> /\ ctxAt[1].pc \in {"start", "loop", "backoff"}

\* C36: if the context is cancelled when retry.Do is called, or becomes cancelled before
\* an attempt begins, the unit of work is not invoked again and Do returns the context's
\* error.
C36_CancelledBeforeAttemptReturnsCtxErr ==
    (paPc = "ret" /\ CancelledBeforeAttempt) =>
        /\ Len(paRunErrs) = ctxAt[1].runs
        /\ doErr = ctxErr

-----------------------------------------------------------------------------
\* What a retry attempt of ProcessAudio runs again

\* the step is a run of the pipeline that is not the first of the call
RetryRunStep == paPc = "fn" /\ paPc' # "fn" /\ paRunErrs # << >>

\* the collaborator calls the step added
NewCalls == SubSeq(paCalls', Len(paCalls) + 1, Len(paCalls'))

\* Execute was invoked no more often than the configured number of attempts
ExecuteWithinBudget ==
    doCfg # << >> =>
        /\ CountCalls(paCalls, "Execute") <= doCfg[1].MaxAttempts
        /\ Len(paRunErrs) <= doCfg[1].MaxAttempts

\* every retry attempt invokes storage.Exists and the input probe
RetryRunsExistsAndProbe ==
    RetryRunStep =>
        /\ IsPrefix(<< "Exists", "Probe" >>, NewCalls)
        /\ CountCalls(NewCalls, "Execute") <= 1

\* C37 as stated: on every retry attempt storage.Exists and the input probe are invoked
\* again, Execute is invoked at most once per attempt, and Execute is never invoked more
\* often than the configured maximum number of attempts.
C37_RetryRerunsExistsAndProbe == []ExecuteWithinBudget /\ [][RetryRunsExistsAndProbe]_vars

\* the run of the step got past validation
ValidationPassed ==
    LET err == paRunErrs'[Len(paRunErrs')]
    IN  ~isValidationError(err) /\ ~ProcessingStage(err, "validate")

\* every retry attempt starts again at storage.Exists, and probes the input again when
\* validation passed
RetryRunsFromValidation ==
    RetryRunStep =>
        /\ IsPrefix(<< "Exists" >>, NewCalls)
        /\ ValidationPassed => IsPrefix(<< "Exists", "Probe" >>, NewCalls)
        /\ ~ValidationPassed => NewCalls = << "Exists" >>
        /\ CountCalls(NewCalls, "Execute") <= 1

\* C37, amended: every retry attempt re-runs the pipeline from validation: storage.Exists
\* is invoked again on each attempt, the input probe is invoked again on each attempt
\* whose validation passed, Execute is invoked at most once per attempt, and Execute is
\* never invoked more often than the configured maximum number of attempts.
C37_RetryRerunsFromValidation == []ExecuteWithinBudget /\ [][RetryRunsFromValidation]_vars

\* three attempts: Execute failed, then the existence check failed, then the run succeeded
C37_Witness ==
    /\ Len(paRunErrs) = 3 /\ paRunErrs[3] = NoErr
    /\ paCalls = SubSeq(StageOrder, 1, 3) \o << "Exists" >> \o StageOrder

-----------------------------------------------------------------------------
\* Progress checkpoints of one Pipeline.Run

\* the checkpoints of a run, in stage order: input probed, encoding started,
\* encoding complete, done
Checkpoints == << 5, 20, 90, 100 >>

\* the step is one run of the pipeline
RunStep == paPc = "fn" /\ paPc' # "fn"

\* the progress percents the step emitted
NewReports == SubSeq(paReports', Len(paReports) + 1, Len(paReports'))

\* what one run emits, by how it ended
RunCheckpoints ==
    RunStep =>
        LET err == paRunErrs'[Len(paRunErrs')]
            done == { i \in 1..Len(NewReports) : NewReports[i] = 100 }
        IN  /\ IsPrefix(NewReports, Checkpoints)
            /\ (done # {}) <=> (err = NoErr /\ paResult' # << >>)
            /\ done \subseteq { Len(NewReports) } /\ Cardinality(done) <= 1
            /\ (isValidationError(err) \/ ProcessingStage(err, "validate")
                    \/ ProcessingStage(err, "probe")) => NewReports = << >>
            /\ ProcessingStage(err, "encode") => NewReports = << 5 >>
            /\ (err # NoErr /\ err[1].t = "ffmpeg") => NewReports = << 5, 20 >>

\* C38: within one Pipeline.Run the 100% update is emitted if and only if the run returns
\* a successful result, at most once and as the last update; a run that fails at a stage
\* emits no checkpoint of a later stage, and a run that fails validation or the input
\* probe emits none at all.
C38_DoneOnlyOnSuccess == [][RunCheckpoints]_vars

\* a run that failed at the input probe and emitted nothing, then a run that failed in
\* Execute after two checkpoints, then a run that succeeded and emitted all four
C38_Witness ==
    /\ Len(paRunErrs) = 3
    /\ ProcessingStage(paRunErrs[1], "probe")
    /\ paRunErrs[2] = NewFFmpegError(RawErr)
    /\ paRunErrs[3] = NoErr
    /\ paReports = << 5, 20 >> \o Checkpoints

-----------------------------------------------------------------------------
\* progress.MultiReporter under concurrent Add and Report

\* the goroutines that each call m.Add once; goroutine a adds the reporter a
MultiAdders == {1, 2}

\* the goroutines that each call m.Report once; goroutine g reports the update g
MultiCallers == {1, 2}

\* the reporter handed to NewMultiReporter, when there is one
FirstReporter == 0

\* the reporters that are part of the list: those of the constructor, and those whose
\* Add has returned
Added == { mReporters[i] : i \in 1..Len(mReporters) } \ { a \in MultiAdders : addPc[a] # "done" }

\* NewMultiReporter(reporters...), with the goroutines about to call Add and Report
InitMulti ==
    /\ ctxErr = NoErr
    /\ BatchIdle /\ PaIdle /\ OptIdle /\ RepIdle /\ ArgIdle /\ SvcIdle /\ ProbeIdle
    /\ muWriter = {} /\ muPending = {} /\ muReaders = {}
    /\ mReporters \in { << >>, << FirstReporter >> }
    /\ mTorn = FALSE /\ tornSeen = FALSE
    /\ addPc = [ a \in MultiAdders |-> "call" ]
    /\ repCallPc = [ g \in MultiCallers |-> "call" ]
    /\ began = [ g \in MultiCallers |-> {} ]
    /\ snap = [ g \in MultiCallers |-> << >> ]
    /\ idx = [ g \in MultiCallers |-> 0 ]
    /\ received = [ r \in {FirstReporter} \cup MultiAdders |-> << >> ]

\* Add: m.mu.Lock() shuts out other writers and new readers
AddLockAnnounce(a) ==
    /\ addPc[a] = "call"
    /\ muWriter = {} /\ muPending = {}
    /\ muPending' = {a}
    /\ addPc' = [ addPc EXCEPT ![a] = "lock" ]
    /\ UNCHANGED << multiOthers, muWriter, muReaders, mReporters, mTorn, tornSeen, repCallPc,
                    began, snap, idx, received >>

\* an Add whose Lock does not wait for the readers to leave
AddLockAcquireIgnoresReaders(a) ==
    /\ addPc[a] = "lock"
    /\ muWriter' = {a}
    /\ muPending' = {}
    /\ addPc' = [ addPc EXCEPT ![a] = "append" ]
    /\ UNCHANGED << multiOthers, muReaders, mReporters, mTorn, tornSeen, repCallPc,
                    began, snap, idx, received >>

\* Add: m.mu.Lock() returns once the readers holding the lock have left
AddLockAcquire(a) ==
    /\ addPc[a] = "lock"
    /\ muReaders = {}
    /\ muWriter' = {a}
    /\ muPending' = {}
    /\ addPc' = [ addPc EXCEPT ![a] = "append" ]
    /\ UNCHANGED << multiOthers, muReaders, mReporters, mTorn, tornSeen, repCallPc,
                    began, snap, idx, received >>

\* Add: append(m.reporters, r) has started writing
AddAppendBegin(a) ==
    /\ addPc[a] = "append"
    /\ mTorn' = TRUE
    /\ addPc' = [ addPc EXCEPT ![a] = "store" ]
    /\ UNCHANGED << multiOthers, muWriter, muPending, muReaders, mReporters, tornSeen,
                    repCallPc, began, snap, idx, received >>

\* Add: m.reporters = append(m.reporters, r) is stored
AddAppendStore(a) ==
    /\ addPc[a] = "store"
    /\ mReporters' = Append(mReporters, a)
    /\ mTorn' = FALSE
    /\ addPc' = [ addPc EXCEPT ![a] = "unlock" ]
    /\ UNCHANGED << multiOthers, muWriter, muPending, muReaders, tornSeen, repCallPc,
                    began, snap, idx, received >>

\* Add: deferred m.mu.Unlock(), and Add returns
AddUnlock(a) ==
    /\ addPc[a] = "unlock"
    /\ muWriter' = muWriter \ {a}
    /\ addPc' = [ addPc EXCEPT ![a] = "done" ]
    /\ UNCHANGED << multiOthers, muPending, muReaders, mReporters, mTorn, tornSeen, repCallPc,
                    began, snap, idx, received >>

\* Report is called: the reporters that are part of the list at this moment
MultiReportCall(g) ==
    /\ repCallPc[g] = "call"
    /\ began' = [ began EXCEPT ![g] = Added ]
    /\ repCallPc' = [ repCallPc EXCEPT ![g] = "rlock" ]
    /\ UNCHANGED << multiOthers, muWriter, muPending, muReaders, mReporters, mTorn, tornSeen,
                    addPc, snap, idx, received >>

\* Report: m.mu.RLock(), which waits while a writer holds or has asked for the lock
MultiRLock(g) ==
    /\ repCallPc[g] = "rlock"
    /\ muWriter = {} /\ muPending = {}
    /\ muReaders' = muReaders \cup {g}
    /\ repCallPc' = [ repCallPc EXCEPT ![g] = "range" ]
    /\ UNCHANGED << multiOthers, muWriter, muPending, mReporters, mTorn, tornSeen, addPc,
                    began, snap, idx, received >>

\* Report: the range statement evaluates m.reporters
MultiRange(g) ==
    /\ repCallPc[g] = "range"
    /\ snap' = [ snap EXCEPT ![g] = mReporters ]
    /\ idx' = [ idx EXCEPT ![g] = 1 ]
    /\ tornSeen' = (tornSeen \/ mTorn)
    /\ repCallPc' = [ repCallPc EXCEPT ![g] = "loop" ]
    /\ UNCHANGED << multiOthers, muWriter, muPending, muReaders, mReporters, mTorn, addPc,
                    began, received >>

\* Report: r.Report(update) for the next reporter of the range
MultiDeliver(g) ==
    /\ repCallPc[g] = "loop"
    /\ idx[g] <= Len(snap[g])
    /\ received' = [ received EXCEPT ![snap[g][idx[g]]] = Append(@, g) ]
    /\ idx' = [ idx EXCEPT ![g] = @ + 1 ]
    /\ UNCHANGED << multiOthers, muWriter, muPending, muReaders, mReporters, mTorn, tornSeen,
                    addPc, repCallPc, began, snap >>

\* Report: the range is over; deferred m.mu.RUnlock(), and Report returns
MultiRUnlock(g) ==
    /\ repCallPc[g] = "loop"
    /\ idx[g] > Len(snap[g])
    /\ muReaders' = muReaders \ {g}
    /\ repCallPc' = [ repCallPc EXCEPT ![g] = "done" ]
    /\ UNCHANGED << multiOthers, muWriter, muPending, mReporters, mTorn, tornSeen, addPc,
                    began, snap, idx, received >>

MultiAdd(a) ==
    \/ AddLockAnnounce(a)
    \/ AddLockAcquire(a)
    \/ AddAppendBegin(a)
    \/ AddAppendStore(a)
    \/ AddUnlock(a)

MultiReport(g) ==
    \/ MultiReportCall(g)
    \/ MultiRLock(g)
    \/ MultiRange(g)
    \/ MultiDeliver(g)
    \/ MultiRUnlock(g)

NextMulti ==
    \/ \E a \in MultiAdders : MultiAdd(a)
    \/ \E g \in MultiCallers : MultiReport(g)

SpecMulti == InitMulti /\ [][NextMulti]_vars

\* how often reporter r was handed the update u
TimesReceived(r, u) == Cardinality({ i \in 1..Len(received[r]) : received[r][i] = u })

\* no reader and writer hold the lock together, and no Report read the list mid-append
ListNeverTorn ==
    /\ ~tornSeen
    /\ muWriter # {} => muReaders = {}
    /\ Cardinality(muWriter) <= 1

\* a finished Report handed its update once to every reporter that was part of the list
\* when it was called, and no reporter is ever handed an update twice
DeliveredOnce ==
    /\ \A g \in MultiCallers : repCallPc[g] = "done" =>
          \A r \in began[g] : TimesReceived(r, g) = 1
    /\ \A g \in MultiCallers : \A r \in DOMAIN received : TimesReceived(r, g) <= 1

\* a Report waiting for the read lock gets it whenever no writer holds or has asked for
\* the lock, whoever else is reading
ReadersShare ==
    \A g \in MultiCallers :
        (repCallPc[g] = "rlock" /\ muWriter = {} /\ muPending = {}) => ENABLED MultiRLock(g)

\* C32: MultiReporter is safe under concurrent Add and Report: a Report never observes a
\* partially appended list, every reporter whose Add completed before a Report began
\* receives that update exactly once, and concurrent Reports do not exclude one another.
C32_MultiReporterSafe == ListNeverTorn /\ DeliveredOnce /\ ReadersShare

\* two Reports hold the read lock together while an Add waits for them, and one of them
\* has already delivered to a reporter that another Add put on the list
C32_Witness ==
    /\ muReaders = MultiCallers
    /\ muPending # {}
    /\ \E a \in MultiAdders : addPc[a] = "done" /\ received[a] # << >>

====
